---- MODULE Spec2Model ----
(***************************************************************************)
(* State-machine model of the journal crawler (crawler/ and                *)
(* crawler_light/): consensus classification, the storage boundary,        *)
(* windowed pagination of NatureParser, CellParser's crawl, the failure    *)
(* registry with its retry pass, the crawl window of the incremental       *)
(* runs, the loop of a run over journals and sub-journals, the relaxed     *)
(* fallback of the archive parsers, the duplicate filters, the hand-over   *)
(* of classified items to storage and archive, the fetch of one page, the  *)
(* browser sessions of the scheduled process, the worker pool of the       *)
(* classification passes, the wait for a page to load in the browser and   *)
(* the pagination over the PLOS search listing.                            *)
(*                                                                         *)
(* One module holds several specifications, one per subsystem.  Every      *)
(* specification fixes the variables of the other subsystems in its Init   *)
(* and leaves them unchanged.                                              *)
(***************************************************************************)
EXTENDS Integers, Sequences, FiniteSets, TLC

(***************************************************************************)
(* Bounds of the model.                                                    *)
(***************************************************************************)
MaxItems == 3
MaxSaves == 3

VARIABLES
    \* ---- consensus classification (main_backward / main_forward / light main)
    entry,          \* which entry point runs the consensus loop
    card_infos,     \* the candidate items handed to classification, ids 1..n
    result1,        \* pass A: item id -> vote ("absent" when the id is missing)
    result2,        \* pass B
    cpc,            \* position: "passA", "passB", "arbitrate", "done"
    idx,            \* the item the arbitration loop is at
    ai_papers,      \* relevant output, sequence of [id, reason]
    non_ai_papers,  \* non-relevant output
    review,         \* item id -> outcome of its adjudication call, or "none"
    review_calls,   \* item id -> number of agent.analyze_paper calls made for it
    \* ---- storage boundary (UnifiedDB)
    papers_table,   \* rows of the journal table, in insertion order: [doi, url]
    save_log,       \* the save_paper calls so far: [doi, url, db_ok, ret]
    \* ---- NatureParser.scrape_journal
    start_date,     \* the window
    end_date,
    listing,        \* the site: article type -> the cards its listing serves
    paper_agent,    \* TRUE when the parser was built with a paper_agent
    non_ai_set,     \* ids recorded in exports/json/non_ai_papers.json
    article_type,   \* index of the article type the outer loop is at
    page_url,       \* number of the page to request next, 0 for None
    served,         \* cards of the current listing already served
    ret_date,       \* date of the last card processed, NoDate for None
    nat_cards,      \* article type -> card_infos of its page loop
    pages,          \* article type -> the pages fetched, in order
    error_link,     \* article type -> TRUE when a request of it failed
    articles,       \* the list scrape_journal builds
    nat_pc,         \* "paging", "returned" or "raised"
    nat_result,     \* the list returned
    nat_voted,      \* ids of the cards the parser sent through its two passes
    \* ---- FailedJournalsManager and CellParser.retry_failed_journals
    failed_file,    \* journals_config/failed_cell_journals.json
    reg_now,        \* datetime.now() as add_failed_journal reads it next
    retry_pc,       \* "idle", "retrying" or "done"
    retry_list,     \* failed_journals, the list the retry loop runs over
    retry_i,        \* the record the retry loop is at
    retry_site,     \* journal -> state of its site during the pass
    before,         \* the registry when the pass began
    retry_got,      \* journal -> TRUE when its retry retrieved articles
    retry_articles, \* len(retry_articles)
    passes,         \* retry passes begun
    \* ---- CellParser.scrape_journal
    req,            \* plain attempt -> status the site answers with
    browser,        \* "off" (use_selenium false), "no_driver" or "on"
    selenium,       \* Selenium attempt -> its result
    site_issues,    \* issue links the archive page yields for the window
    issue_page,     \* what _get_page_with_retry gives for an issue page
    cell_journal,   \* the journal scrape_journal was called for
    cell_pc,        \* "start" or "done"
    cell_articles,  \* len(articles) returned
    cell_raised,    \* TRUE when scrape_journal raised to its caller
    cell_failed,    \* self.failed_journals
    \* ---- the crawl window of one sub-journal (main_backward)
    now,            \* the current day
    pub_dates,      \* the non-NULL pub_date values stored for the sub-journal
    first_run,      \* CrawlerSystemTimed.first_run
    initial_window, \* <<initial_start_date, initial_end_date>>, <<>> if unset
    run_window,     \* <<start_date, end_date>> of the latest run, <<>> if none
    run_first,      \* TRUE when the latest run was the first one
    run_failed,     \* TRUE when the sub-journal failed in the latest run
    run_query_ok,   \* FALSE when get_last_update_time's query raised
    left_dates,     \* pub_dates as the run before the latest run left them
    run_saved,      \* the dates of the records the latest run stored
    runs,           \* runs made
    \* ---- one run of an entry point over its journals
    run_entry,      \* the entry point that runs
    journal_list,   \* journal -> len(config_manager.get_journal_list(journal))
    run_j,          \* index of the journal the outer loop is at
    run_s,          \* index of the sub-journal the inner loop is at
    run_pc,         \* "journal", "sub", "summary" or "done"
    run_results,    \* results: journal -> "absent", "counts" or "error"
    attempts,       \* journal -> sub-journal -> calls of parser.scrape_journal
    initialized,    \* journal -> TRUE when initialize_journal returned
    sub_success,    \* journal -> sub-journals counted as successful
    sub_failed,     \* journal -> sub-journals counted as failed
    \* ---- the relaxed fallback of ScienceParser and CellParser
    fb_parser,      \* "science" or "cell"
    fb_window,      \* <<start_date, end_date>>
    fb_issues,      \* the archive listing: cover date of each issue, in order
    fb_pc,          \* "list", "fetch" or "done"
    fb_selected,    \* indices of the issues whose pages are to be fetched
    fb_relaxed,     \* TRUE when the strict filter kept nothing
    fb_i,           \* position in fb_selected
    fb_seen,        \* kind of date -> articles seen on the fetched pages
    fb_returned,    \* len(articles)
    \* ---- the items of one journal, from listing to classification
    in_kind,        \* the journal: "nature" or "plos"
    in_listing,     \* sub-journal -> the DOIs its listing serves in the window
    in_stored,      \* the DOIs the journal's table holds
    in_k,           \* the sub-journal the loop is at
    seen_dois,      \* PLOSParser._selenium_seen_dois / _requests_seen_dois
    in_returned,    \* sub-journal -> the DOIs scrape_journal returned for it
    card_dois,      \* the DOIs of the contents handed to the latest classification
    \* ---- the hand-over of one classified sub-journal to storage and archive
    hand_entry,     \* "backward" or "forward"
    hand_pc,        \* "start", "done", or "raised" when ai_papers.sort raised
    hand_ai,        \* ai_papers, in classification order
    hand_non_ai,    \* non_ai_papers
    hand_saves,     \* the save_paper calls made, in order, with their outcome
    hand_table,     \* rows of the journal table
    hand_archive,   \* entries of the no_ai_<journal>_<window>.json file
    \* ---- one fetch of one page
    fetch_kind,     \* "base", "plos" or "nature": the code that fetches
    fetch_browser,  \* TRUE when use_selenium is set and a driver exists
    fetch_pc,       \* "plain", "browser" or "done"
    fetch_attempt,  \* iterations of the attempt loop made so far
    fetch_sent,     \* HTTP requests sent to the server so far
    fetch_forbidden, \* TRUE while every answer so far was a 403 or a 429
    fetch_browser_tried, \* TRUE once the driver was asked for the page
    fetch_result,   \* "pending", "plain_full", "plain_short", "browser_page", "none"
    \* ---- the scheduled process and the browser sessions of its parsers
    dm_pc,          \* "running" or "exited"
    dm_runs,        \* runs of run_incremental_crawl completed
    dm_done,        \* journals the current run has initialized
    dm_parsers,     \* self.parsers: per journal "none", "no_driver", "driver"
    dm_open,        \* browser sessions created and not quit
    \* ---- the two classification passes on the worker pool of PaperAgent
    pool_items,     \* len(contents), the items to classify
    pool_pass,      \* "A", "B", or "arbitrate" once result2 is there
    pool_parts,     \* pass -> its batches, each <<first item, last item>>
    pool_next,      \* index of the next batch a worker will take
    pool_running,   \* analyze_batch_papers_with_id calls in flight
    pool_done,      \* pass -> batches whose call has ended
    pool_calls,     \* pass -> per batch, the calls made for it
    \* ---- BaseParser.wait_for_page_load under a Selenium scrape
    wait_pc,        \* "polling", "returned", or "interrupted"
    wait_clock,     \* seconds since the call of wait_for_page_load
    wait_anti_bot,  \* consecutive_anti_bot
    wait_last,      \* what the last poll saw: "none", "anti_bot", "content", "thin", "error"
    wait_result,    \* the value returned
    wait_delivered, \* TRUE once the process was sent an interruption
    wait_fetches,   \* driver.get calls made by the scrape
    \* ---- PLOSParser: pagination over the search listing
    plos_mode,      \* "selenium" or "requests"
    plos_total,     \* total_pages as detected before the loop, 0 when not detected
    plos_page,      \* page, the number of the next page to request
    plos_requested, \* pages requested so far
    plos_last,      \* what the last requested page held
    plos_pc         \* "paging" or "done"

consVars == <<entry, card_infos, result1, result2, cpc, idx, ai_papers,
              non_ai_papers, review, review_calls>>

dbVars == <<papers_table, save_log>>

natVars == <<start_date, end_date, listing, paper_agent, non_ai_set,
             article_type, page_url, served, ret_date, nat_cards, pages,
             error_link, articles, nat_pc, nat_result, nat_voted>>

regRest == <<retry_pc, retry_list, retry_i, retry_site, before, retry_got,
             retry_articles, passes>>

regVars == <<failed_file, reg_now, regRest>>

cellVars == <<req, browser, selenium, site_issues, issue_page, cell_journal,
              cell_pc, cell_articles, cell_raised, cell_failed>>

winVars == <<now, pub_dates, first_run, initial_window, run_window,
    run_first, run_failed, run_query_ok, left_dates, run_saved, runs>>

runVars == <<run_entry, journal_list, run_j, run_s, run_pc, run_results,
    attempts, initialized, sub_success, sub_failed>>

fbVars == <<fb_parser, fb_window, fb_issues, fb_pc, fb_selected,
    fb_relaxed, fb_i, fb_seen, fb_returned>>

intakeVars == <<in_kind, in_listing, in_stored, in_k, seen_dois,
    in_returned, card_dois>>

handVars == <<hand_entry, hand_pc, hand_ai, hand_non_ai, hand_saves,
    hand_table, hand_archive>>

fetchVars == <<fetch_kind, fetch_browser, fetch_pc, fetch_attempt,
    fetch_sent, fetch_forbidden, fetch_browser_tried, fetch_result>>

daemonVars == <<dm_pc, dm_runs, dm_done, dm_parsers, dm_open>>

poolVars == <<pool_items, pool_pass, pool_parts, pool_next, pool_running,
    pool_done, pool_calls>>

waitVars == <<wait_pc, wait_clock, wait_anti_bot, wait_last, wait_result,
    wait_delivered, wait_fetches>>

plosVars == <<plos_mode, plos_total, plos_page, plos_requested,
    plos_last, plos_pc>>

vars == <<consVars, dbVars, natVars, regVars, cellVars,
         winVars,
         runVars,
         fbVars,
         intakeVars,
         handVars,
         fetchVars,
         daemonVars,
         poolVars,
         waitVars,
         plosVars>>

\* What each subsystem's actions leave alone.
notCons == <<dbVars, natVars, regVars, cellVars,
    winVars,
    runVars,
    fbVars,
    intakeVars,
    handVars,
    fetchVars,
    daemonVars,
    poolVars,
    waitVars,
    plosVars>>
notDb == <<consVars, natVars, regVars, cellVars,
    winVars,
    runVars,
    fbVars,
    intakeVars,
    handVars,
    fetchVars,
    daemonVars,
    poolVars,
    waitVars,
    plosVars>>
notNat == <<consVars, dbVars, regVars, cellVars,
    winVars,
    runVars,
    fbVars,
    intakeVars,
    handVars,
    fetchVars,
    daemonVars,
    poolVars,
    waitVars,
    plosVars>>
notReg == <<consVars, dbVars, natVars, cellVars,
    winVars,
    runVars,
    fbVars,
    intakeVars,
    handVars,
    fetchVars,
    daemonVars,
    poolVars,
    waitVars,
    plosVars>>
notCell == <<consVars, dbVars, natVars,
    winVars,
    runVars,
    fbVars,
    intakeVars,
    handVars,
    fetchVars,
    daemonVars,
    poolVars,
    waitVars,
    plosVars>>
notRun == <<consVars, dbVars, natVars, regVars,
    cellVars, winVars,
    fbVars,
    intakeVars,
    handVars,
    fetchVars,
    daemonVars,
    poolVars,
    waitVars,
    plosVars>>
notWin == <<consVars, dbVars, natVars, regVars,
    cellVars,
    runVars,
    fbVars,
    intakeVars,
    handVars,
    fetchVars,
    daemonVars,
    poolVars,
    waitVars,
    plosVars>>
notIntake == <<consVars, dbVars, natVars, regVars,
    cellVars, winVars, runVars, fbVars,
    handVars,
    fetchVars,
    daemonVars,
    poolVars,
    waitVars,
    plosVars>>
notFb == <<consVars, dbVars, natVars, regVars,
    cellVars, winVars, runVars,
    intakeVars,
    handVars,
    fetchVars,
    daemonVars,
    poolVars,
    waitVars,
    plosVars>>
notFetch == <<consVars, dbVars, natVars, regVars,
    cellVars, winVars, runVars, fbVars, intakeVars, handVars,
    daemonVars,
    poolVars,
    waitVars,
    plosVars>>
notHand == <<consVars, dbVars, natVars, regVars,
    cellVars, winVars, runVars, fbVars, intakeVars,
    fetchVars,
    daemonVars,
    poolVars,
    waitVars,
    plosVars>>
notPool == <<consVars, dbVars, natVars, regVars,
    cellVars, winVars, runVars, fbVars, intakeVars, handVars, fetchVars, daemonVars,
    waitVars,
    plosVars>>
notDaemon == <<consVars, dbVars, natVars, regVars,
    cellVars, winVars, runVars, fbVars, intakeVars, handVars, fetchVars,
    poolVars,
    waitVars,
    plosVars>>
notPlos == <<consVars, dbVars, natVars, regVars,
    cellVars, winVars, runVars, fbVars, intakeVars, handVars, fetchVars, daemonVars, poolVars, waitVars>>
notWait == <<consVars, dbVars, natVars, regVars,
    cellVars, winVars, runVars, fbVars, intakeVars, handVars, fetchVars, daemonVars, poolVars,
    plosVars>>

(***************************************************************************)
(* Helpers.                                                                *)
(***************************************************************************)
Range(s) == {s[i] : i \in DOMAIN s}

RECURSIVE SumOver(_, _)
SumOver(f, S) ==
    IF S = {} THEN 0
    ELSE LET x == CHOOSE y \in S : TRUE
         IN  f[x] + SumOver(f, S \ {x})

Ids(cs) == {cs[i].id : i \in DOMAIN cs}

(***************************************************************************)
(* ConsensusClassifier.                                                    *)
(*                                                                         *)
(* A vote is what r1_map.get(rid) / r2_map.get(rid) yields for an item:    *)
(* "Related" / "Not Related" (is_ai_related true / false), or "absent"     *)
(* when the pass returned no result with that id (the batch call failed    *)
(* and returned [], or the answer lacked the item).                        *)
(***************************************************************************)
Vote == {"Related", "NotRelated", "absent"}

\* What agent.analyze_paper returns: a judgment, or the dict of its except
\* branch (is_ai_related False, explanation "Error during analysis").
ReviewOutcome == {"Related", "NotRelated", "error"}

Entries == {"backward", "forward", "light"}

FailedReason == "AI analysis failed"

\* The light entry point files an item with a missing vote as non-relevant;
\* the two database entry points `continue`.
KeepsFailed(e) == e = "light"

\* Variants of Decide.
DecideReviewsAgreement(e, r1, r2) ==
    IF r1 = "absent" \/ r2 = "absent"
    THEN IF KeepsFailed(e) THEN "failed" ELSE "skip"
    ELSE IF r1 = "NotRelated" /\ r2 = "NotRelated" THEN "non_ai"
    ELSE "review"

DecideTrustsPassA(e, r1, r2) ==
    IF r1 = "absent" \/ r2 = "absent"
    THEN IF KeepsFailed(e) THEN "failed" ELSE "skip"
    ELSE IF r1 = "Related" THEN "ai"
    ELSE IF r2 = "NotRelated" THEN "non_ai"
    ELSE "review"

\* The branch taken for one item of `for item in card_infos`.
Decide(e, r1, r2) ==
    IF r1 = "absent" \/ r2 = "absent"
    THEN IF KeepsFailed(e) THEN "failed" ELSE "skip"
    ELSE IF r1 = "Related" /\ r2 = "Related" THEN "ai"
    ELSE IF r1 = "NotRelated" /\ r2 = "NotRelated" THEN "non_ai"
    ELSE "review"

\* item['reason'] on each branch.
ReasonOf(d, rv) ==
    CASE d = "failed" -> FailedReason
      [] d = "review" -> IF rv = "error" THEN "explError" ELSE "explReview"
      [] OTHER        -> "explA"

\* TRUE when the item is appended to ai_papers.
IsRelevant(d, rv) == d = "ai" \/ (d = "review" /\ rv = "Related")

ItemIds == 1 .. card_infos

ConsStart ==
    /\ entry \in Entries
    /\ card_infos \in 0 .. MaxItems
    /\ result1 = [i \in 1 .. card_infos |-> "absent"]
    /\ result2 = [i \in 1 .. card_infos |-> "absent"]
    /\ cpc = IF card_infos = 0 THEN "done" ELSE "passA"
    /\ idx = 1
    /\ ai_papers = <<>>
    /\ non_ai_papers = <<>>
    /\ review = [i \in 1 .. card_infos |-> "none"]
    /\ review_calls = [i \in 1 .. card_infos |-> 0]

\* The classifier at rest, in the specifications of the other subsystems.
ConsIdle ==
    /\ entry = "backward"
    /\ card_infos = 0
    /\ result1 = <<>>
    /\ result2 = <<>>
    /\ cpc = "done"
    /\ idx = 1
    /\ ai_papers = <<>>
    /\ non_ai_papers = <<>>
    /\ review = <<>>
    /\ review_calls = <<>>

\* result1 = agent.batch_analyze_papers_in_batches_concurrent(contents, 10)
PassA ==
    /\ cpc = "passA"
    /\ \E r \in [ItemIds -> Vote] : result1' = r
    /\ cpc' = "passB"
    /\ UNCHANGED <<entry, card_infos, result2, idx, ai_papers, non_ai_papers,
                   review, review_calls>>
    /\ UNCHANGED notCons

\* result2 = agent.batch_analyze_papers_in_batches_concurrent(contents, 10)
PassB ==
    /\ cpc = "passB"
    /\ \E r \in [ItemIds -> Vote] : result2' = r
    /\ cpc' = "arbitrate"
    /\ UNCHANGED <<entry, card_infos, result1, idx, ai_papers, non_ai_papers,
                   review, review_calls>>
    /\ UNCHANGED notCons

\* One iteration of `for item in card_infos`.
Arbitrate ==
    /\ cpc = "arbitrate"
    /\ idx <= card_infos
    /\ LET d == Decide(entry, result1[idx], result2[idx])
       IN  \E rv \in (IF d = "review" THEN ReviewOutcome ELSE {"none"}) :
             /\ review' = [review EXCEPT ![idx] = rv]
             /\ review_calls' = [review_calls EXCEPT
                                   ![idx] = @ + (IF d = "review" THEN 1 ELSE 0)]
             /\ IF d = "skip"
                THEN UNCHANGED <<ai_papers, non_ai_papers>>
                ELSE IF IsRelevant(d, rv)
                THEN /\ ai_papers' = Append(ai_papers,
                                            [id |-> idx, reason |-> ReasonOf(d, rv)])
                     /\ UNCHANGED non_ai_papers
                ELSE /\ non_ai_papers' = Append(non_ai_papers,
                                            [id |-> idx, reason |-> ReasonOf(d, rv)])
                     /\ UNCHANGED ai_papers
    /\ idx' = idx + 1
    /\ cpc' = IF idx = card_infos THEN "done" ELSE "arbitrate"
    /\ UNCHANGED <<entry, card_infos, result1, result2>>
    /\ UNCHANGED notCons

(***************************************************************************)
(* Storage boundary: UnifiedDB.save_paper on the journal table, whose only *)
(* uniqueness constraint is UNIQUE KEY unique_doi (doi).  MySQL lets any   *)
(* number of rows hold NULL in a unique column.                            *)
(***************************************************************************)
NULL == "NULL"

DoiValues == {"", "d1"}
UrlValues == {"", "u1", "u2"}
Papers == [doi : DoiValues, url : UrlValues]

\* clean_empty_string: '' becomes None.
CleanEmptyString(v) == IF v = "" THEN NULL ELSE v

\* Variant of DoiValue: no fallback to the URL.
DoiValueNoFallback(paper) == CleanEmptyString(paper.doi)

\* doi_value of save_paper: the DOI, else the URL, else NULL.
DoiValue(paper) ==
    LET doi_value == CleanEmptyString(paper.doi)
        url_value == CleanEmptyString(paper.url)
    IN  IF doi_value = NULL /\ url_value # NULL THEN url_value ELSE doi_value

\* INSERT IGNORE: the row is dropped when its doi is already in the table.
InsertIgnored(table, doi_value) ==
    doi_value # NULL /\ \E i \in DOMAIN table : table[i].doi = doi_value

\* The table after save_paper(paper); db_ok is FALSE when reconnecting or
\* executing raises, which save_paper catches.
TableAfterSave(table, paper, db_ok) ==
    IF ~db_ok \/ InsertIgnored(table, DoiValue(paper))
    THEN table
    ELSE Append(table, [doi |-> DoiValue(paper),
                        url |-> CleanEmptyString(paper.url)])

\* save_paper's return value: cursor.rowcount > 0, False after an exception.
SaveReturns(table, paper, db_ok) ==
    db_ok /\ ~InsertIgnored(table, DoiValue(paper))

DbStart ==
    /\ papers_table = <<>>
    /\ save_log = <<>>

DbIdle == DbStart

\* db.save_paper(paper, journal_name)
SavePaper ==
    /\ Len(save_log) < MaxSaves
    /\ \E paper \in Papers, db_ok \in BOOLEAN :
         /\ papers_table' = TableAfterSave(papers_table, paper, db_ok)
         /\ save_log' = Append(save_log,
                [doi |-> paper.doi, url |-> paper.url, db_ok |-> db_ok,
                 ret |-> SaveReturns(papers_table, paper, db_ok)])
    /\ UNCHANGED notDb

(***************************************************************************)
(* NatureParser.scrape_journal: two listings (article types), each paged   *)
(* from its first page; the cards of a page are filtered by the window,    *)
(* the candidates of a listing are classified inside the parser, and the   *)
(* list built over both listings is sorted and returned.                   *)
(*                                                                         *)
(* A card is [id, date]: id stands for its link (the DOI is the link's     *)
(* last segment, the title goes with the link), date for the parsed        *)
(* <time> tag, NoDate when dateparser yields None.                         *)
(***************************************************************************)
NoDate == 0

MaxListing == 2

ArticleTypes == <<"news-and-comment", "research-articles">>

TypeIds == DOMAIN ArticleTypes

\* The cards a site may list: in the window, undated, older, newer.
NatCards == {[id |-> 1, date |-> 2], [id |-> 2, date |-> NoDate],
             [id |-> 3, date |-> 1], [id |-> 4, date |-> 3]}

\* The listing of the pagination stop rule, newest first.
PagingStream == <<[id |-> 1, date |-> 10], [id |-> 2, date |-> 9],
                  [id |-> 3, date |-> 8], [id |-> 4, date |-> 5],
                  [id |-> 5, date |-> 1]>>

SeqsUpTo(S, n) == UNION {[1 .. k -> S] : k \in 0 .. n}

\* Variant of KeepCard: the end of the window is not checked.
KeepCardNoEnd(card, start, end) ==
    card.date = NoDate \/ card.date >= start

\* The date filter: `if pub_date:` guards both comparisons.
KeepCard(card, start, end) ==
    card.date = NoDate \/ (card.date >= start /\ card.date <= end)

\* card_infos after `for card in cards`.
ProcessCards(cards, infos, start, end, skip) ==
    infos \o SelectSeq(cards, LAMBDA c : KeepCard(c, start, end) /\ c.id \notin skip)

\* ret_date after `for card in cards`: the date of the last card.
RetDate(cards, ret) ==
    IF cards = <<>> THEN ret ELSE cards[Len(cards)].date

\* Variant of StopPaging: paging never stops on a date.
StopPagingNever(ret, start) == FALSE

\* `ret_date and start_date and ret_date < start_date`
StopPaging(ret, start) == ret # NoDate /\ ret < start

\* page_url after the pagination block.
NextPage(url, has_next, ret, start) ==
    IF has_next /\ ~StopPaging(ret, start) THEN url + 1 ELSE 0

\* What the consensus loop of the parser does with one item.
Verdict(d, rv) ==
    IF d = "skip" THEN "dropped"
    ELSE IF IsRelevant(d, rv) THEN "ai" ELSE "non_ai"

NatVerdicts ==
    {Verdict(Decide("nature", a, b), rv) : a \in Vote, b \in Vote,
                                           rv \in ReviewOutcome}

\* The items of infos whose verdict is x, in order.
RECURSIVE Pick(_, _, _)
Pick(infos, v, x) ==
    IF infos = <<>> THEN <<>>
    ELSE LET n == Len(infos)
             front == Pick(SubSeq(infos, 1, n - 1), v, x)
         IN  IF v[n] = x THEN Append(front, infos[n]) ELSE front

\* The sort key is x['date'], a date, or datetime 1900-01-01 for None;
\* comparing a date with a datetime raises TypeError.
SortRaises(as) ==
    \E i, j \in DOMAIN as : as[i].date = NoDate /\ as[j].date # NoDate

RECURSIVE InsertDesc(_, _)
InsertDesc(s, x) ==
    IF s = <<>> THEN <<x>>
    ELSE IF s[Len(s)].date >= x.date THEN Append(s, x)
    ELSE Append(InsertDesc(SubSeq(s, 1, Len(s) - 1), x), s[Len(s)])

\* articles.sort(key=..., reverse=True): stable, newest first.
RECURSIVE SortDesc(_)
SortDesc(as) ==
    IF as = <<>> THEN <<>>
    ELSE InsertDesc(SortDesc(SubSeq(as, 1, Len(as) - 1)), as[Len(as)])

NatBegin ==
    /\ paper_agent \in BOOLEAN
    /\ non_ai_set = {}
    /\ article_type = 1
    /\ page_url = 1
    /\ served = 0
    /\ ret_date = NoDate
    /\ nat_cards = [t \in TypeIds |-> <<>>]
    /\ pages = [t \in TypeIds |-> <<>>]
    /\ error_link = [t \in TypeIds |-> FALSE]
    /\ articles = <<>>
    /\ nat_pc = "paging"
    /\ nat_result = <<>>
    /\ nat_voted = {}

NatStart ==
    /\ start_date = 2
    /\ end_date = 2
    /\ listing \in [TypeIds -> SeqsUpTo(NatCards, MaxListing)]
    /\ NatBegin

\* The listing of the stop rule as either article type, the other one empty.
PagingStart ==
    /\ start_date = 6
    /\ end_date = 11
    /\ listing \in {<<PagingStream, <<>> >>, << <<>>, PagingStream>>}
    /\ NatBegin

\* The parser at rest, in the specifications of the other subsystems.
NatIdle ==
    /\ start_date = 2
    /\ end_date = 2
    /\ listing = [t \in TypeIds |-> <<>>]
    /\ paper_agent = TRUE
    /\ non_ai_set = {}
    /\ article_type = 1
    /\ page_url = 0
    /\ served = 0
    /\ ret_date = NoDate
    /\ nat_cards = [t \in TypeIds |-> <<>>]
    /\ pages = [t \in TypeIds |-> <<>>]
    /\ error_link = [t \in TypeIds |-> FALSE]
    /\ articles = <<>>
    /\ nat_pc = "returned"
    /\ nat_result = <<>>
    /\ nat_voted = {}

\* One iteration of `while page_url` whose request succeeds: the site serves
\* the next k cards of the listing, with a next-page link when cards remain.
NatFetchPage ==
    /\ nat_pc = "paging"
    /\ page_url # 0
    /\ LET t == article_type
           rest == SubSeq(listing[t], served + 1, Len(listing[t]))
       IN  \E k \in (IF rest = <<>> THEN {0} ELSE 1 .. Len(rest)) :
             LET cards == SubSeq(rest, 1, k)
                 has_next == k < Len(rest)
                 new_ret == RetDate(cards, ret_date)
             IN  /\ nat_cards' = [nat_cards EXCEPT ![t] =
                        ProcessCards(cards, @, start_date, end_date, non_ai_set)]
                 /\ ret_date' = new_ret
                 /\ served' = served + k
                 /\ pages' = [pages EXCEPT ![t] = Append(@, cards)]
                 /\ page_url' = NextPage(page_url, has_next, new_ret, start_date)
    /\ UNCHANGED <<start_date, end_date, listing, paper_agent, non_ai_set,
                   article_type, error_link, articles, nat_pc, nat_result,
                   nat_voted>>
    /\ UNCHANGED notNat

\* One iteration whose request raises (connection error, raise_for_status):
\* error_link.append(base_url); break.
NatFetchFails ==
    /\ nat_pc = "paging"
    /\ page_url # 0
    /\ error_link' = [error_link EXCEPT ![article_type] = TRUE]
    /\ page_url' = 0
    /\ UNCHANGED <<start_date, end_date, listing, paper_agent, non_ai_set,
                   article_type, served, ret_date, nat_cards, pages, articles,
                   nat_pc, nat_result, nat_voted>>
    /\ UNCHANGED notNat

\* After the page loop of an article type: the consensus classification of
\* its card_infos, then the next article type; after the last type the else
\* clause of the for loop, the sort and the return.
NatEndStream ==
    /\ nat_pc = "paging"
    /\ page_url = 0
    /\ LET t == article_type
           infos == nat_cards[t]
           classified == infos # <<>> /\ paper_agent
       IN  \E v \in [DOMAIN infos -> NatVerdicts], file_ok \in BOOLEAN :
             LET ai == IF classified THEN Pick(infos, v, "ai") ELSE <<>>
                 non == IF classified THEN Pick(infos, v, "non_ai") ELSE <<>>
                 arts == articles \o ai
                 final == arts \o infos
             IN  /\ non_ai_set' = IF file_ok THEN non_ai_set \cup Ids(non)
                                  ELSE non_ai_set
                 /\ nat_voted' = IF classified THEN nat_voted \cup Ids(infos)
                                 ELSE nat_voted
                 /\ IF t < Len(ArticleTypes)
                    THEN /\ articles' = arts
                         /\ article_type' = t + 1
                         /\ page_url' = 1
                         /\ served' = 0
                         /\ ret_date' = NoDate
                         /\ UNCHANGED <<nat_pc, nat_result>>
                    ELSE /\ articles' = IF SortRaises(final) THEN final
                                        ELSE SortDesc(final)
                         /\ nat_pc' = IF SortRaises(final) THEN "raised"
                                      ELSE "returned"
                         /\ nat_result' = IF SortRaises(final) THEN <<>>
                                          ELSE SortDesc(final)
                         /\ UNCHANGED <<article_type, page_url, served, ret_date>>
    /\ UNCHANGED <<start_date, end_date, listing, paper_agent, nat_cards, pages,
                   error_link>>
    /\ UNCHANGED notNat

(***************************************************************************)
(* FailedJournalsManager: the registry is the JSON list of one file, which *)
(* every operation loads, changes and saves.  The file is taken to be      *)
(* readable and writable.  A record is [journal_name, reason, retry_count].*)
(***************************************************************************)
MaxRetryCount == 3
MaxPasses == 2
MaxRegNow == 1

Journals == {"A", "B"}

Reasons == {"Forbidden", "Timeout"}

Names(file) == {file[i].journal_name : i \in DOMAIN file}

\* Index of the first record of a journal, 0 when it has none.
IndexOf(file, name) ==
    IF name \in Names(file)
    THEN CHOOSE i \in DOMAIN file :
           /\ file[i].journal_name = name
           /\ \A k \in 1 .. i - 1 : file[k].journal_name # name
    ELSE 0

RecordOf(file, name) == file[IndexOf(file, name)]

\* Variant of AddFailedJournalTo: the record is appended without a look at
\* the records of the file.
AddFailedJournalToAppends(file, name, reason) ==
    Append(file, [journal_name |-> name, reason |-> reason,
                  failed_time |-> reg_now, retry_count |-> 0])

\* add_failed_journal: an existing record gets the new reason, the time of
\* the call as failed_time and its retry_count incremented; a new one starts
\* at retry_count 0.
AddFailedJournalTo(file, name, reason) ==
    LET i == IndexOf(file, name)
    IN  IF i > 0
        THEN [file EXCEPT ![i] = [@ EXCEPT !.reason = reason,
                                           !.failed_time = reg_now,
                                           !.retry_count = @ + 1]]
        ELSE Append(file, [journal_name |-> name, reason |-> reason,
                           failed_time |-> reg_now, retry_count |-> 0])

\* remove_successful_journal
RemoveSuccessfulJournal(file, name) ==
    SelectSeq(file, LAMBDA r : r.journal_name # name)

\* Variant of UpdateRetryInfo: every record is incremented.
UpdateRetryInfoAll(file, name) ==
    [i \in DOMAIN file |-> [file[i] EXCEPT !.retry_count = @ + 1]]

\* update_retry_info: the first record of the journal is incremented.
UpdateRetryInfo(file, name) ==
    LET i == IndexOf(file, name)
    IN  IF i > 0 THEN [file EXCEPT ![i] = [@ EXCEPT !.retry_count = @ + 1]]
        ELSE file

(***************************************************************************)
(* CellParser.retry_failed_journals.  During a pass the site of a journal  *)
(* is in one state: it answers 200 and has an issue with an item in the    *)
(* window, answers 200 with nothing in the window, answers 403, or the     *)
(* request raises.  Lists are modelled by their lengths.                   *)
(***************************************************************************)
SiteStates == {"ok_items", "ok_empty", "forbidden", "down"}

StatusCode(s) ==
    CASE s \in {"ok_items", "ok_empty"} -> "200"
      [] s = "forbidden" -> "403"
      [] OTHER -> "exception"

\* The methods the retry helpers call on self that CellParser (or
\* BaseParser) defines; a call of any other name raises AttributeError.
CellParserMethods ==
    {"_retry_single_journal", "_extract_volume_issue_links_with_fallback_retry",
     "_extract_volume_issue_links_retry", "_extract_articles_from_issue_retry"}

Defined(method) == method \in CellParserMethods

\* _extract_volume_issue_links_retry: number of issue links; the except
\* clause turns the AttributeError into [].
ExtractVolumeIssueLinksRetry(s) ==
    IF StatusCode(s) # "200" THEN 0
    ELSE IF Defined("_parse_issue_links_from_response")
    THEN (IF s = "ok_items" THEN 1 ELSE 0)
    ELSE 0

\* _extract_volume_issue_links_with_fallback_retry: the first of the three
\* archive URLs that yields links.
ExtractVolumeIssueLinksWithFallbackRetry(s) ==
    LET urls_to_try == 1 .. 3
    IN  IF \E u \in urls_to_try : ExtractVolumeIssueLinksRetry(s) > 0
        THEN ExtractVolumeIssueLinksRetry(s)
        ELSE 0

\* _extract_articles_from_issue_retry: number of articles of one issue.
ExtractArticlesFromIssueRetry(s) ==
    IF StatusCode(s) # "200" THEN 0
    ELSE IF Defined("_parse_articles_from_issue_page")
    THEN (IF s = "ok_items" THEN 1 ELSE 0)
    ELSE 0

\* _retry_single_journal: number of articles retrieved.
RetrySingleJournal(s) ==
    LET issue_links == ExtractVolumeIssueLinksWithFallbackRetry(s)
    IN  IF issue_links = 0 THEN 0
        ELSE issue_links * ExtractArticlesFromIssueRetry(s)

RegStart ==
    /\ failed_file = <<>>
    /\ reg_now = 0
    /\ retry_pc = "idle"
    /\ retry_list = <<>>
    /\ retry_i = 1
    /\ retry_site = [j \in Journals |-> "ok_empty"]
    /\ before = <<>>
    /\ retry_got = [j \in Journals |-> FALSE]
    /\ retry_articles = 0
    /\ passes = 0

RegIdle == RegStart

\* failed_manager.add_failed_journal(journal_name, base_url, reason), as
\* CellParser.scrape_journal and PLOSParser.scrape_journal call it.
AddFailedJournal ==
    /\ retry_pc # "retrying"
    /\ \E j \in Journals, reason \in Reasons :
         /\ j \in Names(failed_file) =>
                RecordOf(failed_file, j).retry_count < MaxRetryCount
         /\ failed_file' = AddFailedJournalTo(failed_file, j, reason)
    /\ reg_now' = IF reg_now < MaxRegNow THEN reg_now + 1 ELSE reg_now
    /\ UNCHANGED regRest
    /\ UNCHANGED notReg

\* failed_manager.clear_failed_journals(): no code of the crawler calls it;
\* here it is called by hand before the first retry pass.
ClearFailedJournals ==
    /\ retry_pc = "idle"
    /\ failed_file # <<>>
    /\ failed_file' = <<>>
    /\ UNCHANGED <<reg_now, regRest>>
    /\ UNCHANGED notReg

\* retry_failed_journals up to its loop: the list is read once.
RetryBegin ==
    /\ retry_pc # "retrying"
    /\ passes < MaxPasses
    /\ \A i \in DOMAIN failed_file : failed_file[i].retry_count < MaxRetryCount
    /\ \E s \in [Journals -> SiteStates] : retry_site' = s
    /\ retry_list' = failed_file
    /\ before' = failed_file
    /\ retry_got' = [j \in Journals |-> FALSE]
    /\ retry_articles' = 0
    /\ retry_i' = 1
    /\ retry_pc' = IF failed_file = <<>> THEN "done" ELSE "retrying"
    /\ passes' = passes + 1
    /\ UNCHANGED <<failed_file, reg_now>>
    /\ UNCHANGED notReg

\* One iteration of `for journal_record in failed_journals`.
RetryOne ==
    /\ retry_pc = "retrying"
    /\ retry_i <= Len(retry_list)
    /\ LET journal_name == retry_list[retry_i].journal_name
           touched == UpdateRetryInfo(failed_file, journal_name)
           got == RetrySingleJournal(retry_site[journal_name])
       IN  /\ failed_file' = IF got > 0
                             THEN RemoveSuccessfulJournal(touched, journal_name)
                             ELSE touched
           /\ retry_got' = [retry_got EXCEPT ![journal_name] = got > 0]
           /\ retry_articles' = retry_articles + got
    /\ retry_i' = retry_i + 1
    /\ retry_pc' = IF retry_i = Len(retry_list) THEN "done" ELSE "retrying"
    /\ UNCHANGED <<retry_list, retry_site, before, passes, reg_now>>
    /\ UNCHANGED notReg

(***************************************************************************)
(* CellParser.scrape_journal and the page fetch under it.  The site gives  *)
(* one status to each of the plain attempts at an archive URL (the same    *)
(* for the three archive URLs and their ?isCoverWidget fallback), and the  *)
(* browser one result per Selenium attempt.                                *)
(***************************************************************************)
MaxRetries == 3
SeleniumAttempts == 2

Status == {"ok", "short", "403", "429", "error"}

Browsers == {"off", "no_driver", "on"}

SeleniumResult == {"ok", "short", "error"}

\* What one plain attempt does: return the response, go to the next
\* attempt, leave the loop, or raise.
AttemptOutcome(status, attempt) ==
    CASE status = "ok"    -> "return"
      [] status = "403"   -> IF attempt < MaxRetries THEN "continue" ELSE "raise"
      [] status = "429"   -> IF attempt < MaxRetries THEN "continue" ELSE "break"
      [] status = "short" -> "continue"
      [] OTHER            -> "raise"

\* `except Exception` around the attempt: the last attempt breaks.
Caught(outcome, attempt) ==
    IF outcome = "raise"
    THEN (IF attempt = MaxRetries THEN "break" ELSE "continue")
    ELSE outcome

RECURSIVE RequestsPhase(_, _)
RequestsPhase(statuses, attempt) ==
    IF attempt > MaxRetries THEN "selenium"
    ELSE LET o == Caught(AttemptOutcome(statuses[attempt], attempt), attempt)
         IN  IF o = "return" THEN "response"
             ELSE IF o = "break" THEN "selenium"
             ELSE RequestsPhase(statuses, attempt + 1)

SeleniumPhase(brw, results) ==
    IF brw = "on" /\ \E i \in 1 .. SeleniumAttempts : results[i] = "ok"
    THEN "response" ELSE "none"

\* _get_page_with_retry: a response, or None; it raises nothing.
GetPageWithRetry(statuses, brw, results) ==
    IF RequestsPhase(statuses, 1) = "response" THEN "response"
    ELSE SeleniumPhase(brw, results)

\* _extract_volume_issue_links: [] when the URL and its fallback URL give no
\* response, else the issues selected from the page; its except clause gets
\* no exception from _get_page_with_retry, so it raises no 403.
ExtractVolumeIssueLinks(statuses, brw, results, issues) ==
    IF GetPageWithRetry(statuses, brw, results) = "none"
    THEN [links |-> 0, raised |-> "None"]
    ELSE [links |-> issues, raised |-> "None"]

\* _extract_volume_issue_links_with_fallback: (links, error).
ExtractVolumeIssueLinksWithFallback(statuses, brw, results, issues) ==
    LET r == ExtractVolumeIssueLinks(statuses, brw, results, issues)
    IN  IF r.raised = "403" THEN [links |-> 0, access_error |-> "403"]
        ELSE [links |-> r.links, access_error |-> r.raised]

\* _extract_articles_from_issue: nothing when the issue page has no response.
ExtractArticlesFromIssue(page) == IF page = "none" THEN 0 ELSE 1

CellBegin ==
    /\ cell_journal = "A"
    /\ cell_pc = "start"
    /\ cell_articles = 0
    /\ cell_raised = FALSE
    /\ cell_failed = <<>>

CellStart ==
    /\ req \in [1 .. MaxRetries -> Status]
    /\ browser \in Browsers
    /\ selenium \in [1 .. SeleniumAttempts -> SeleniumResult]
    /\ browser # "on" => selenium = [i \in 1 .. SeleniumAttempts |-> "error"]
    /\ site_issues \in 0 .. 1
    /\ issue_page \in {"response", "none"}
    /\ CellBegin

CellIdle ==
    /\ req = [i \in 1 .. MaxRetries |-> "ok"]
    /\ browser = "on"
    /\ selenium = [i \in 1 .. SeleniumAttempts |-> "ok"]
    /\ site_issues = 0
    /\ issue_page = "response"
    /\ CellBegin

\* scrape_journal(journal_name, base_url, start_date, end_date)
CellScrapeJournal ==
    /\ cell_pc = "start"
    /\ \E j \in Journals :
         LET r == ExtractVolumeIssueLinksWithFallback(req, browser, selenium,
                                                      site_issues)
             reason == "Forbidden"
         IN  /\ cell_journal' = j
             /\ IF r.links = 0
                THEN /\ cell_articles' = 0
                     /\ IF r.access_error = "403"
                        THEN /\ failed_file' =
                                  AddFailedJournalTo(failed_file, j, reason)
                             /\ cell_failed' = Append(cell_failed, j)
                        ELSE UNCHANGED <<failed_file, cell_failed>>
                ELSE /\ cell_articles' =
                          r.links * ExtractArticlesFromIssue(issue_page)
                     /\ UNCHANGED <<failed_file, cell_failed>>
    /\ cell_pc' = "done"
    /\ cell_raised' = FALSE
    /\ UNCHANGED <<req, browser, selenium, site_issues, issue_page>>
    /\ UNCHANGED <<reg_now, regRest>>
    /\ UNCHANGED notCell

(***************************************************************************)
(* The crawl window of a sub-journal in run_incremental_crawl.  Days are   *)
(* integers.  The first run uses the configured window when both of its    *)
(* dates are set; every other run asks the database for MAX(pub_date) of   *)
(* the sub-journal and ends its window at the current time.                *)
(***************************************************************************)
Week == 7
FirstDay == 8
MaxNow == 10
MaxRuns == 3

Days == 0 .. MaxNow + 1

MaxOf(S) == CHOOSE x \in S : \A y \in S : y <= x

MinOf(S) == CHOOSE x \in S : \A y \in S : x <= y

\* Variant of GetLastUpdateTime: the oldest stored date.
GetLastUpdateTimeOldest(dates, t, query_ok) ==
    IF query_ok /\ dates # {} THEN MinOf(dates) ELSE t - Week

\* get_last_update_time(journal_name): MAX(pub_date) of the sub-journal, or
\* one week before now when there is none or the query raises.
GetLastUpdateTime(dates, t, query_ok) ==
    IF query_ok /\ dates # {} THEN MaxOf(dates) ELSE t - Week

\* lastKnownDate of the sub-journal with a working database.
LastKnownDate == GetLastUpdateTime(pub_dates, now, TRUE)

\* Variant of WindowOf: the configured window is used in every run.
WindowOfConfigured(first, initial, dates, t, query_ok) ==
    IF initial # <<>>
    THEN initial
    ELSE <<GetLastUpdateTime(dates, t, query_ok), t>>

\* start_date and end_date of a run (main_backward.py 156-165).
WindowOf(first, initial, dates, t, query_ok) ==
    IF first /\ initial # <<>>
    THEN initial
    ELSE <<GetLastUpdateTime(dates, t, query_ok), t>>

\* The windows main() can configure: none, a past week, a window ending
\* after today, and one whose dates are given in the wrong order (main
\* parses the two dates and compares nothing).
InitialWindows == {<<>>, <<1, FirstDay>>, <<FirstDay, FirstDay + 1>>,
                   <<FirstDay, 1>>}

\* The dates of the relevant items a crawl of window w can hand to
\* save_paper: the parsers keep an item with a known date only when the
\* date lies in the window, and ScienceParser stamps an item without a date
\* with today's date.
CrawledDates(w) ==
    ((IF w[1] <= w[2] THEN {w[1], w[2]} ELSE {}) \cup {now}) \cap Days

WinStart ==
    /\ now = FirstDay
    /\ pub_dates = {}
    /\ first_run = TRUE
    /\ initial_window \in InitialWindows
    /\ run_window = <<>>
    /\ run_first = FALSE
    /\ run_failed = FALSE
    /\ run_query_ok = TRUE
    /\ left_dates = {}
    /\ run_saved = {}
    /\ runs = 0

WinIdle ==
    /\ now = FirstDay
    /\ pub_dates = {}
    /\ first_run = TRUE
    /\ initial_window = <<>>
    /\ run_window = <<>>
    /\ run_first = FALSE
    /\ run_failed = FALSE
    /\ run_query_ok = TRUE
    /\ left_dates = {}
    /\ run_saved = {}
    /\ runs = 0

\* One run of run_incremental_crawl for the sub-journal: the window, the
\* crawl (which may raise), the saves of the relevant items, and at the end
\* of the run first_run = False.
RunSubjournal ==
    /\ runs < MaxRuns
    /\ \E query_ok \in BOOLEAN, raises \in BOOLEAN :
         LET w == WindowOf(first_run, initial_window, pub_dates, now, query_ok)
         IN  /\ run_window' = w
             /\ run_query_ok' = query_ok
             /\ run_failed' = raises
             /\ \E saved \in SUBSET CrawledDates(w) :
                  /\ Cardinality(saved) <= 1
                  /\ raises => saved = {}
                  /\ run_saved' = saved
                  /\ pub_dates' = pub_dates \cup saved
    /\ run_first' = first_run
    /\ first_run' = FALSE
    /\ left_dates' = pub_dates
    /\ runs' = runs + 1
    /\ UNCHANGED <<now, initial_window>>
    /\ UNCHANGED notWin

\* A day passes between two runs (schedule.run_pending fires daily or weekly).
DayPasses ==
    /\ now < MaxNow
    /\ now' = now + 1
    /\ UNCHANGED <<pub_dates, first_run, initial_window, run_window, run_first,
                   run_failed, run_query_ok, left_dates, run_saved, runs>>
    /\ UNCHANGED notWin

(***************************************************************************)
(* One run of an entry point: the loop over the journals and, inside it,   *)
(* the loop over the sub-journals of each.                                 *)
(*   main_backward.CrawlerSystemTimed.run_incremental_crawl                *)
(*   main_forward.CrawlerSystem.run_full_crawl                             *)
(*   crawler_light/main.CrawlerSystemLight.run_full_crawl                  *)
(***************************************************************************)
MaxSubs == 2

\* self.journals, in the order the outer loop visits them.
SourceNames == <<"nature", "cell">>

Sources == Range(SourceNames)

\* What processing one sub-journal can do: return, raise from
\* parser.scrape_journal, or (main_backward only) raise from ai_papers.sort
\* after the scrape returned.
SubOutcomes(e) ==
    IF e = "backward" THEN {"ok", "scrape_raises", "sort_raises"}
    ELSE {"ok", "scrape_raises"}

\* TRUE when the exception of outcome o is caught inside the sub-journal
\* loop: main_backward wraps the whole body of the loop, the light entry
\* point wraps only the call of scrape_journal, main_forward wraps nothing.
CaughtPerSubjournal(e, o) ==
    \/ e = "backward"
    \/ e = "light" /\ o = "scrape_raises"

\* The success counter is incremented right after scrape_journal returns;
\* main_forward keeps no counter.
CountsSuccess(e, o) == e # "forward" /\ o # "scrape_raises"

RunStart ==
    /\ run_entry \in Entries
    /\ journal_list \in [Sources -> 0 .. MaxSubs]
    /\ run_j = 1
    /\ run_s = 1
    /\ run_pc = "journal"
    /\ run_results = [j \in Sources |-> "absent"]
    /\ attempts = [j \in Sources |-> [s \in 1 .. journal_list[j] |-> 0]]
    /\ initialized = [j \in Sources |-> FALSE]
    /\ sub_success = [j \in Sources |-> 0]
    /\ sub_failed = [j \in Sources |-> 0]

\* No run, in the specifications of the other subsystems.
RunIdle ==
    /\ run_entry = "backward"
    /\ journal_list = [j \in Sources |-> 0]
    /\ run_j = 1
    /\ run_s = 1
    /\ run_pc = "done"
    /\ run_results = [j \in Sources |-> "absent"]
    /\ attempts = [j \in Sources |-> <<>>]
    /\ initialized = [j \in Sources |-> FALSE]
    /\ sub_success = [j \in Sources |-> 0]
    /\ sub_failed = [j \in Sources |-> 0]

\* The outer loop moves to the next journal, or to print_summary after the
\* last one.
NextJournal ==
    /\ run_s' = 1
    /\ IF run_j = Len(SourceNames)
       THEN run_pc' = "summary" /\ run_j' = run_j
       ELSE run_pc' = "journal" /\ run_j' = run_j + 1

\* The head of the outer loop's body: initialize_journal, get_journal_list
\* and the `continue` on an empty list.
RunJournal ==
    /\ run_pc = "journal"
    /\ LET j == SourceNames[run_j]
       IN  \E init_ok \in BOOLEAN :
             /\ initialized' = [initialized EXCEPT ![j] = init_ok]
             /\ IF ~init_ok
                THEN /\ run_results' = [run_results EXCEPT ![j] = "error"]
                     /\ NextJournal
                ELSE IF journal_list[j] = 0
                THEN /\ UNCHANGED run_results
                     /\ NextJournal
                ELSE /\ UNCHANGED <<run_results, run_j>>
                     /\ run_s' = 1
                     /\ run_pc' = "sub"
    /\ UNCHANGED <<run_entry, journal_list, attempts, sub_success, sub_failed>>
    /\ UNCHANGED notRun

\* One iteration of the inner loop, with the exits an exception takes.
RunSub ==
    /\ run_pc = "sub"
    /\ LET j == SourceNames[run_j]
       IN  \E o \in SubOutcomes(run_entry) :
             /\ attempts' = [attempts EXCEPT ![j][run_s] = @ + 1]
             /\ sub_success' =
                    [sub_success EXCEPT
                       ![j] = @ + (IF CountsSuccess(run_entry, o) THEN 1 ELSE 0)]
             /\ sub_failed' =
                    [sub_failed EXCEPT
                       ![j] = @ + (IF /\ o # "ok"
                                      /\ CaughtPerSubjournal(run_entry, o)
                                   THEN 1 ELSE 0)]
             /\ IF o = "ok" \/ CaughtPerSubjournal(run_entry, o)
                THEN IF run_s = journal_list[j]
                     THEN /\ run_results' = [run_results EXCEPT ![j] = "counts"]
                          /\ NextJournal
                     ELSE /\ run_s' = run_s + 1
                          /\ UNCHANGED <<run_results, run_j, run_pc>>
                ELSE /\ run_results' = [run_results EXCEPT ![j] = "error"]
                     /\ NextJournal
    /\ UNCHANGED <<run_entry, journal_list, initialized>>
    /\ UNCHANGED notRun

\* self.print_summary(results, ...) and the return.
PrintSummary ==
    /\ run_pc = "summary"
    /\ run_pc' = "done"
    /\ UNCHANGED <<run_entry, journal_list, run_j, run_s, run_results, attempts,
                   initialized, sub_success, sub_failed>>
    /\ UNCHANGED notRun

(***************************************************************************)
(* The relaxed fallback of the archive parsers.                            *)
(*   ScienceParser._get_science_year_volumes / _find_nearest_volumes_science*)
(*   CellParser._extract_volume_issue_links / _find_nearest_issues_cell    *)
(* An archive page lists issues (volumes), each with a cover date or none; *)
(* the page of an issue lists articles.  An article is modelled by how the *)
(* date of its details page stands to the window.  ScienceParser's loop    *)
(* over the years of the window is modelled for one year.                  *)
(***************************************************************************)
MaxIssues == 3
MaxArts == 2

FbParsers == {"science", "cell"}

FbWindows == {<<3, 4>>, <<2, 4>>}

IssueDates == {NoDate, 1, 2, 3, 5}

ArtKinds == {"undated", "in_range", "out_of_range"}

Abs(x) == IF x < 0 THEN -x ELSE x

\* BaseParser._is_date_in_range
IsDateInRange(d, w) == w[1] <= d /\ d <= w[2]

\* target_center = start_date + (end_date - start_date) / 2: adding a
\* timedelta to a date ignores the part of it below one day.
TargetCenter(w) == w[1] + ((w[2] - w[1]) \div 2)

\* distance = abs((issue_date - target_center).days)
Distance(d, w) == Abs(d - TargetCenter(w))

\* The strict filter of the archive page: CellParser keeps an issue whose
\* spans hold no date, ScienceParser skips a volume without a cover date.
StrictKeeps(p, d, w) ==
    IF d = NoDate THEN p = "cell" ELSE IsDateInRange(d, w)

\* The positions of the listing, in listing order.
Indices(issues) == [i \in 1 .. Len(issues) |-> i]

StrictIssues(p, issues, w) ==
    LET Keep(i) == StrictKeeps(p, issues[i], w)
    IN  SelectSeq(Indices(issues), Keep)

RECURSIVE InsertByDistance(_, _, _, _)
InsertByDistance(s, x, issues, w) ==
    IF s = <<>> THEN <<x>>
    ELSE IF Distance(issues[s[Len(s)]], w) <= Distance(issues[x], w)
    THEN Append(s, x)
    ELSE Append(InsertByDistance(SubSeq(s, 1, Len(s) - 1), x, issues, w),
                s[Len(s)])

\* issues_with_dates.sort(key=lambda x: x['distance']): stable.
RECURSIVE SortByDistance(_, _, _)
SortByDistance(s, issues, w) ==
    IF s = <<>> THEN <<>>
    ELSE InsertByDistance(SortByDistance(SubSeq(s, 1, Len(s) - 1), issues, w),
                          s[Len(s)], issues, w)

\* _find_nearest_issues_cell / _find_nearest_volumes_science: the dated
\* issues sorted by distance, cut to the first two.
FindNearestIssues(issues, w) ==
    LET Dated(i) == issues[i] # NoDate
        sorted == SortByDistance(SelectSeq(Indices(issues), Dated), issues, w)
    IN  SubSeq(sorted, 1, IF Len(sorted) < 2 THEN Len(sorted) ELSE 2)

\* The issues scrape_journal goes on to fetch.
SelectIssues(p, issues, w) ==
    LET strict == StrictIssues(p, issues, w)
    IN  IF strict = <<>> /\ issues # <<>>
        THEN FindNearestIssues(issues, w)
        ELSE strict

\* The date filter on the articles of an issue page: the window again, for
\* the issues of the fallback as for any other; CellParser keeps an article
\* with no date, ScienceParser drops it.
KeepArticle(p, kind) ==
    \/ kind = "in_range"
    \/ kind = "undated" /\ p = "cell"

\* The pages an issue can serve: how many articles of each kind.
IssuePages ==
    {pg \in [ArtKinds -> 0 .. MaxArts] :
        pg["undated"] + pg["in_range"] + pg["out_of_range"] <= MaxArts}

FbStart ==
    /\ fb_parser \in FbParsers
    /\ fb_window \in FbWindows
    /\ fb_issues \in SeqsUpTo(IssueDates, MaxIssues)
    /\ fb_pc = "list"
    /\ fb_selected = <<>>
    /\ fb_relaxed = FALSE
    /\ fb_i = 1
    /\ fb_seen = [k \in ArtKinds |-> 0]
    /\ fb_returned = 0

\* No crawl, in the specifications of the other subsystems.
FbIdle ==
    /\ fb_parser = "cell"
    /\ fb_window = <<3, 4>>
    /\ fb_issues = <<>>
    /\ fb_pc = "done"
    /\ fb_selected = <<>>
    /\ fb_relaxed = FALSE
    /\ fb_i = 1
    /\ fb_seen = [k \in ArtKinds |-> 0]
    /\ fb_returned = 0

\* The archive page is read and the issues to fetch are chosen.
FbListIssues ==
    /\ fb_pc = "list"
    /\ fb_selected' = SelectIssues(fb_parser, fb_issues, fb_window)
    /\ fb_relaxed' = (StrictIssues(fb_parser, fb_issues, fb_window) = <<>>)
    /\ fb_pc' = IF fb_selected' = <<>> THEN "done" ELSE "fetch"
    /\ UNCHANGED <<fb_parser, fb_window, fb_issues, fb_i, fb_seen, fb_returned>>
    /\ UNCHANGED notFb

\* One iteration of the loop over the chosen issues: the page of the issue
\* is fetched and its articles go through the date filter.
FbFetchIssue ==
    /\ fb_pc = "fetch"
    /\ \E pg \in IssuePages :
         /\ fb_seen' = [k \in ArtKinds |-> fb_seen[k] + pg[k]]
         /\ fb_returned' =
                fb_returned
                + SumOver(pg, {k \in ArtKinds : KeepArticle(fb_parser, k)})
    /\ IF fb_i = Len(fb_selected)
       THEN fb_pc' = "done" /\ fb_i' = fb_i
       ELSE fb_pc' = "fetch" /\ fb_i' = fb_i + 1
    /\ UNCHANGED <<fb_parser, fb_window, fb_issues, fb_selected, fb_relaxed>>
    /\ UNCHANGED notFb

(***************************************************************************)
(* The way of an item from the listing of a sub-journal to classification: *)
(* the duplicate filters of the parsers (NatureParser's existence check,   *)
(* PLOSParser's set of seen DOIs) and the hand-over of the scraped papers  *)
(* to the two classification passes in run_incremental_crawl.  One parser  *)
(* object serves all the sub-journals of a journal in a run.               *)
(***************************************************************************)
Dois == {"d1", "d2"}

\* hasattr(self.db, 'paper_exists'): UnifiedDB defines check_paper_exists
\* and nothing named paper_exists.
HasPaperExists == FALSE

\* What scrape_journal returns for a listing page: NatureParser skips a DOI
\* for which the existence check answers, PLOSParser a DOI in its seen set.
ScrapedPapers(kind, page, stored, seen) ==
    IF kind = "nature"
    THEN {d \in page : ~(HasPaperExists /\ d \in stored)}
    ELSE page \ seen

IntakeStart ==
    /\ in_kind \in {"nature", "plos"}
    /\ in_listing \in [1 .. MaxSubs -> SUBSET Dois]
    /\ in_stored \in SUBSET Dois
    /\ in_k = 1
    /\ seen_dois = {}
    /\ in_returned = [k \in 1 .. MaxSubs |-> {}]
    /\ card_dois = {}

\* Nothing crawled, in the specifications of the other subsystems.
IntakeIdle ==
    /\ in_kind = "nature"
    /\ in_listing = [k \in 1 .. MaxSubs |-> {}]
    /\ in_stored = {}
    /\ in_k = MaxSubs + 1
    /\ seen_dois = {}
    /\ in_returned = [k \in 1 .. MaxSubs |-> {}]
    /\ card_dois = {}

\* One iteration of the loop over the sub-journals: the scrape, card_infos
\* built from every paper returned, the two passes over them, and the save
\* of the relevant ones.
IntakeSubjournal ==
    /\ in_k <= MaxSubs
    /\ LET page == in_listing[in_k]
           papers == ScrapedPapers(in_kind, page, in_stored, seen_dois)
       IN  /\ seen_dois' = IF in_kind = "plos" THEN seen_dois \cup page
                           ELSE seen_dois
           /\ in_returned' = [in_returned EXCEPT ![in_k] = papers]
           /\ card_dois' = papers
           /\ \E relevant \in SUBSET papers :
                in_stored' = in_stored \cup relevant
    /\ in_k' = in_k + 1
    /\ UNCHANGED <<in_kind, in_listing>>
    /\ UNCHANGED notIntake

(***************************************************************************)
(* The hand-over of the classified items of one sub-journal: ai_papers is  *)
(* sorted (main_backward only) and saved item by item, non_ai_papers goes  *)
(* to the JSON file of the journal and window.                             *)
(*   main_backward.py 186-268, 310-353; main_forward.py 136-206, 270-313   *)
(* Relevant items are modelled by DOI, URL and date, non-relevant ones by  *)
(* DOI, URL and title; the order of the file's entries is left out.        *)
(***************************************************************************)
MaxHand == 2

AiItems == [doi : DoiValues, url : {"u1"}, date : {NoDate, 1, 2}]

NonAiItems == [doi : DoiValues, url : {"u1"}, title : {"t1", "t2"}]

\* The item as save_paper and the archive read it from card_infos:
\* main_backward copies the URL under 'url' and 'link', main_forward only
\* under 'link', so paper.get('url', '') gives '' there.
CardUrl(e, item) == IF e = "backward" THEN item.url ELSE ""

\* ai_papers.sort(key=lambda x: x.get('date', ...)): 'date' is always a key
\* of the item, so a missing date is compared as None, which raises
\* TypeError as soon as the list has two items.
SortByDateRaises(as) ==
    Len(as) >= 2 /\ \E i \in DOMAIN as : as[i].date = NoDate

\* The list after the stable ascending sort.
SortByDate(as) ==
    LET Rank(i) == 1 + Cardinality({j \in DOMAIN as :
                         \/ as[j].date < as[i].date
                         \/ as[j].date = as[i].date /\ j < i})
    IN  [k \in DOMAIN as |-> as[CHOOSE i \in DOMAIN as : Rank(i) = k]]

\* The table after save_paper on each item of as in turn; oks[k] is FALSE
\* when the k-th call fails at the database.
RECURSIVE SaveAll(_, _, _, _)
SaveAll(e, table, as, oks) ==
    IF as = <<>> THEN table
    ELSE SaveAll(e,
                 TableAfterSave(table,
                                [doi |-> as[1].doi, url |-> CardUrl(e, as[1])],
                                oks[1]),
                 Tail(as), Tail(oks))

\* The file after _save_non_ai_papers_to_json: main_backward appends the
\* items with a non-empty DOI not yet in the file, or earlier in the list;
\* main_forward the items whose title is not yet in the file.
ArchiveAfter(e, file, ns) ==
    LET FileHas(f, v) == \E x \in DOMAIN file : file[x][f] = v
        New(i) ==
            IF e = "backward"
            THEN /\ ns[i].doi # ""
                 /\ ~FileHas("doi", ns[i].doi)
                 /\ \A j \in 1 .. i - 1 : ns[j].doi # ns[i].doi
            ELSE ~FileHas("title", ns[i].title)
        entries == [i \in DOMAIN ns |->
                      [doi |-> ns[i].doi, link |-> CardUrl(e, ns[i]),
                       title |-> ns[i].title]]
        kept == SelectSeq([i \in DOMAIN ns |-> i], New)
    IN  file \o [k \in DOMAIN kept |-> entries[kept[k]]]

HandStart ==
    /\ hand_entry \in {"backward", "forward"}
    /\ hand_pc = "start"
    /\ hand_ai = <<>>
    /\ hand_non_ai = <<>>
    /\ hand_saves = <<>>
    /\ hand_table = <<>>
    /\ hand_archive \in
           {<<>>, <<[doi |-> "d1", link |-> "u1", title |-> "t1"]>>}

\* Nothing handed over, in the specifications of the other subsystems.
HandIdle ==
    /\ hand_entry = "backward"
    /\ hand_pc = "done"
    /\ hand_ai = <<>>
    /\ hand_non_ai = <<>>
    /\ hand_saves = <<>>
    /\ hand_table = <<>>
    /\ hand_archive = <<>>

\* From the end of the arbitration loop to the end of the sub-journal's
\* iteration.  An exception of the sort leaves the iteration at once
\* (main_backward's handler of the sub-journal counts it as failed).
HandOff ==
    /\ hand_pc = "start"
    /\ \E as \in SeqsUpTo(AiItems, MaxHand), ns \in SeqsUpTo(NonAiItems, MaxHand) :
         /\ hand_ai' = as
         /\ hand_non_ai' = ns
         /\ IF hand_entry = "backward" /\ SortByDateRaises(as)
            THEN /\ hand_pc' = "raised"
                 /\ UNCHANGED <<hand_saves, hand_table, hand_archive>>
            ELSE \E oks \in [DOMAIN as -> BOOLEAN] :
                   LET order == IF hand_entry = "backward"
                                THEN SortByDate(as) ELSE as
                   IN  /\ hand_pc' = "done"
                       /\ hand_saves' =
                              [k \in DOMAIN order |->
                                  [doi |-> order[k].doi, url |-> order[k].url,
                                   date |-> order[k].date, ok |-> oks[k]]]
                       /\ hand_table' =
                              SaveAll(hand_entry, hand_table, order, oks)
                       /\ hand_archive' =
                              IF ns = <<>> THEN hand_archive
                              ELSE ArchiveAfter(hand_entry, hand_archive, ns)
    /\ UNCHANGED hand_entry
    /\ UNCHANGED notHand

(***************************************************************************)
(* Fetching one page.  BaseParser.get_page_with_retry (kind "base", used   *)
(* by ScienceParser) and PLOSParser.get_page_with_retry_plos (kind "plos") *)
(* loop over session.get; the session carries an HTTPAdapter whose Retry   *)
(* re-sends a request by itself on a connection error, a timeout and the   *)
(* statuses of status_forcelist, and raises once its total is used up.     *)
(* NatureParser.scrape_journal (kind "nature") calls requests.get once per *)
(* page, outside any session.  The server's answers are the environment.   *)
(***************************************************************************)
RetryTotal == 8
PlosRetries == 8

\* 200 with a body above or below 1000 characters, a status outside
\* status_forcelist, and the answers the adapter re-sends the request on.
Answers == {"ok", "short", "404", "403", "429", "503", "timeout"}

\* max_retries of the attempt loop; Nature has no loop.
MaxAttemptsOf(kind) ==
    CASE kind = "base"   -> MaxRetries
      [] kind = "plos"   -> PlosRetries
      [] OTHER           -> 1

FetchStart ==
    /\ fetch_kind \in {"base", "plos", "nature"}
    /\ fetch_browser \in BOOLEAN
    /\ fetch_kind = "nature" => ~fetch_browser
    /\ fetch_pc = "plain"
    /\ fetch_attempt = 0
    /\ fetch_sent = 0
    /\ fetch_forbidden = TRUE
    /\ fetch_browser_tried = FALSE
    /\ fetch_result = "pending"

\* No fetch, in the specifications of the other subsystems.
FetchIdle ==
    /\ fetch_kind = "base"
    /\ fetch_browser = FALSE
    /\ fetch_pc = "done"
    /\ fetch_attempt = 0
    /\ fetch_sent = 0
    /\ fetch_forbidden = TRUE
    /\ fetch_browser_tried = FALSE
    /\ fetch_result = "none"

\* One iteration of `for attempt in range(max_retries)`, or Nature's single
\* requests.get: k requests go out, the last one answered by a; the k - 1
\* before it were re-sent by the adapter.  A 200 is returned whatever the
\* length of its body; anything else (a status, or the exception the
\* adapter raises after RetryTotal re-sends) leads to the next iteration.
FetchAttempt ==
    /\ fetch_pc = "plain"
    /\ \E a \in Answers, k \in 1 .. RetryTotal + 1, f \in BOOLEAN :
         LET adapter == fetch_kind # "nature"
             resent == {"403", "429", "503", "timeout"}
             n == fetch_attempt + 1
             last == n = MaxAttemptsOf(fetch_kind)
         IN  /\ ~adapter => k = 1
             /\ (adapter /\ a \in resent) => k = RetryTotal + 1
             /\ f => a \in {"403", "429"}
             /\ k = 1 => (f <=> a \in {"403", "429"})
             /\ fetch_attempt' = n
             /\ fetch_sent' = fetch_sent + k
             /\ fetch_forbidden' = (fetch_forbidden /\ f)
             /\ IF a \in {"ok", "short"}
                THEN /\ fetch_result' = IF a = "ok" THEN "plain_full"
                                        ELSE "plain_short"
                     /\ fetch_pc' = "done"
                ELSE IF ~last
                THEN UNCHANGED <<fetch_result, fetch_pc>>
                ELSE IF fetch_kind = "base" /\ fetch_browser
                THEN /\ fetch_pc' = "browser"
                     /\ UNCHANGED fetch_result
                ELSE /\ fetch_pc' = "done"
                     /\ fetch_result' = "none"
    /\ UNCHANGED <<fetch_kind, fetch_browser, fetch_browser_tried>>
    /\ UNCHANGED notFetch

\* The Selenium stage of get_page_with_retry: the page source counts only
\* when it is longer than 1000 characters and holds neither "403" nor
\* "Forbidden"; every other end returns None.
FetchBrowser ==
    /\ fetch_pc = "browser"
    /\ \E page \in {"ok", "short", "forbidden", "error"} :
         /\ fetch_result' = IF page = "ok" THEN "browser_page" ELSE "none"
         /\ fetch_forbidden' = (fetch_forbidden /\ page = "forbidden")
    /\ fetch_browser_tried' = TRUE
    /\ fetch_pc' = "done"
    /\ UNCHANGED <<fetch_kind, fetch_browser, fetch_attempt, fetch_sent>>
    /\ UNCHANGED notFetch

(***************************************************************************)
(* The scheduled process of main_backward.  start_daemon runs              *)
(* run_incremental_crawl now and at every scheduled time; each run calls   *)
(* initialize_journal for every journal, which stores a new parser in      *)
(* self.parsers[journal].  A parser built with use_selenium=True (every    *)
(* parser but Nature's) starts a Chrome session in its constructor when    *)
(* the driver can be started.  A session ends when quit is called on its   *)
(* driver: BaseParser.cleanup, called by CrawlerSystemTimed.cleanup for    *)
(* the parsers self.parsers holds when start_daemon leaves its try block.  *)
(* The process installs no signal handler: Ctrl+C raises KeyboardInterrupt *)
(* and reaches the finally clause, a kill ends the process at once.        *)
(***************************************************************************)
DaemonStart ==
    /\ dm_pc = "running"
    /\ dm_runs = 0
    /\ dm_done = {}
    /\ dm_parsers = [j \in {"nature", "science", "cell", "plos"} |-> "none"]
    /\ dm_open = 0

\* No scheduled process, in the specifications of the other subsystems.
DaemonIdle ==
    /\ dm_pc = "exited"
    /\ dm_runs = 0
    /\ dm_done = {}
    /\ dm_parsers = [j \in {"nature", "science", "cell", "plos"} |-> "none"]
    /\ dm_open = 0

\* One iteration of `for journal in self.journals`, in the order of the
\* --journals argument: initialize_journal builds the parser of the journal
\* and stores it over the one of the run before, on which nothing is called.
InitializeJournal ==
    /\ dm_pc = "running"
    /\ dm_runs < MaxRuns
    /\ \E j \in DOMAIN dm_parsers \ dm_done, started \in BOOLEAN :
         LET driver == j # "nature" /\ started
             done == dm_done \cup {j}
         IN  /\ dm_parsers' = [dm_parsers EXCEPT ![j] =
                    IF driver THEN "driver" ELSE "no_driver"]
             /\ dm_open' = dm_open + (IF driver THEN 1 ELSE 0)
             /\ IF done # DOMAIN dm_parsers
                THEN /\ dm_done' = done
                     /\ UNCHANGED dm_runs
                ELSE /\ dm_done' = {}
                     /\ dm_runs' = dm_runs + 1
    /\ UNCHANGED dm_pc
    /\ UNCHANGED notDaemon

\* The end of start_daemon: a KeyboardInterrupt or another exception, in a
\* run or between two runs, is followed by cleanup(), which quits the driver
\* of each parser in self.parsers; a kill runs nothing.
DaemonExits ==
    /\ dm_pc = "running"
    /\ \E how \in {"interrupt", "error", "killed"} :
         IF how = "killed"
         THEN UNCHANGED <<dm_parsers, dm_open>>
         ELSE /\ dm_open' = dm_open -
                    Cardinality({j \in DOMAIN dm_parsers :
                                    dm_parsers[j] = "driver"})
              /\ dm_parsers' = [j \in DOMAIN dm_parsers |->
                    IF dm_parsers[j] = "driver" THEN "no_driver"
                    ELSE dm_parsers[j]]
    /\ dm_pc' = "exited"
    /\ UNCHANGED <<dm_runs, dm_done>>
    /\ UNCHANGED notDaemon

(***************************************************************************)
(* PaperAgent.batch_analyze_papers_in_batches_concurrent, called twice on  *)
(* the same contents with batch_size=10.  The batches are submitted to a   *)
(* ThreadPoolExecutor(max_workers=20), whose threads take them in the      *)
(* order of submission; the `with` block is left when every call has       *)
(* ended.  Items are numbered 1 .. pool_items.                             *)
(***************************************************************************)
MaxWorkers == 20
BatchSize == 10
MaxPoolItems == 211

\* paper_list[i:i + batch_size] for i in range(0, len(paper_list), batch_size)
Batches(n) ==
    [b \in 1 .. (n + BatchSize - 1) \div BatchSize |->
        <<(b - 1) * BatchSize + 1,
          IF b * BatchSize < n THEN b * BatchSize ELSE n>>]

PoolStart ==
    /\ pool_items \in {0, 1, BatchSize + 1, MaxPoolItems}
    /\ pool_pass = "A"
    /\ pool_parts = [p \in {"A", "B"} |->
                        IF p = "A" THEN Batches(pool_items) ELSE <<>>]
    /\ pool_next = 1
    /\ pool_running = 0
    /\ pool_done = [p \in {"A", "B"} |-> 0]
    /\ pool_calls = [p \in {"A", "B"} |->
                        IF p = "A" THEN [b \in 1 .. Len(Batches(pool_items)) |-> 0]
                        ELSE <<>>]

\* No classification, in the specifications of the other subsystems.
PoolIdle ==
    /\ pool_items = 0
    /\ pool_pass = "arbitrate"
    /\ pool_parts = [p \in {"A", "B"} |-> <<>>]
    /\ pool_next = 1
    /\ pool_running = 0
    /\ pool_done = [p \in {"A", "B"} |-> 0]
    /\ pool_calls = [p \in {"A", "B"} |-> <<>>]

\* Variant of StartBatch: a thread per submitted batch, whatever the number
\* of calls in flight.
StartBatchUnbounded ==
    /\ pool_pass \in {"A", "B"}
    /\ pool_next <= Len(pool_parts[pool_pass])
    /\ pool_running' = pool_running + 1
    /\ pool_calls' = [pool_calls EXCEPT ![pool_pass][pool_next] = @ + 1]
    /\ pool_next' = pool_next + 1
    /\ UNCHANGED <<pool_items, pool_pass, pool_parts, pool_done>>
    /\ UNCHANGED notPool

\* A free thread of the pool takes the next submitted batch and calls
\* analyze_batch_papers_with_id on it.
StartBatch ==
    /\ pool_pass \in {"A", "B"}
    /\ pool_next <= Len(pool_parts[pool_pass])
    /\ pool_running < MaxWorkers
    /\ pool_running' = pool_running + 1
    /\ pool_calls' = [pool_calls EXCEPT ![pool_pass][pool_next] = @ + 1]
    /\ pool_next' = pool_next + 1
    /\ UNCHANGED <<pool_items, pool_pass, pool_parts, pool_done>>
    /\ UNCHANGED notPool

\* A call returns its results, or [] after an exception.
FinishBatch ==
    /\ pool_running > 0
    /\ pool_running' = pool_running - 1
    /\ pool_done' = [pool_done EXCEPT ![pool_pass] = @ + 1]
    /\ UNCHANGED <<pool_items, pool_pass, pool_parts, pool_next, pool_calls>>
    /\ UNCHANGED notPool

\* Variant of EndPass: the caller goes on as soon as every batch has been
\* taken by a thread.
EndPassEarly ==
    /\ pool_pass \in {"A", "B"}
    /\ pool_next > Len(pool_parts[pool_pass])
    /\ IF pool_pass = "A"
       THEN /\ pool_pass' = "B"
            /\ pool_parts' = [pool_parts EXCEPT !["B"] = Batches(pool_items)]
            /\ pool_calls' = [pool_calls EXCEPT !["B"] =
                                 [b \in 1 .. Len(Batches(pool_items)) |-> 0]]
       ELSE /\ pool_pass' = "arbitrate"
            /\ UNCHANGED <<pool_parts, pool_calls>>
    /\ pool_next' = 1
    /\ UNCHANGED <<pool_items, pool_running, pool_done>>
    /\ UNCHANGED notPool

\* The as_completed loop and the `with` block end; the caller goes on with
\* the second call, or with the loop that compares result1 and result2.
EndPass ==
    /\ pool_pass \in {"A", "B"}
    /\ pool_done[pool_pass] = Len(pool_parts[pool_pass])
    /\ IF pool_pass = "A"
       THEN /\ pool_pass' = "B"
            /\ pool_parts' = [pool_parts EXCEPT !["B"] = Batches(pool_items)]
            /\ pool_calls' = [pool_calls EXCEPT !["B"] =
                                 [b \in 1 .. Len(Batches(pool_items)) |-> 0]]
       ELSE /\ pool_pass' = "arbitrate"
            /\ UNCHANGED <<pool_parts, pool_calls>>
    /\ pool_next' = 1
    /\ UNCHANGED <<pool_items, pool_running, pool_done>>
    /\ UNCHANGED notPool

(***************************************************************************)
(* BaseParser.wait_for_page_load(driver, max_wait=60), called by a         *)
(* Selenium scrape after each driver.get.  Time is counted in seconds and  *)
(* only the sleeps of the function take time.  An interruption is a        *)
(* KeyboardInterrupt raised at the statement the process is at: the bare   *)
(* `except:` around the click swallows it, every other handler of the      *)
(* function is `except Exception` and lets it through.                     *)
(***************************************************************************)
DefaultMaxWait == 60
MaxFetches == 2

\* No page awaited, in the specifications of the other subsystems.
WaitIdle ==
    /\ wait_pc = "returned"
    /\ wait_clock = 0
    /\ wait_anti_bot = 0
    /\ wait_last = "none"
    /\ wait_result = FALSE
    /\ wait_delivered = FALSE
    /\ wait_fetches = MaxFetches

\* One evaluation of the loop condition followed, when it holds, by one
\* iteration: the page is read, and the iteration sleeps according to what
\* it saw.  intr tells whether an interruption arrives in the iteration, in
\* the click block or elsewhere.
WaitPoll ==
    /\ wait_pc = "polling"
    /\ IF wait_clock >= DefaultMaxWait
       THEN /\ wait_pc' = "returned"
            /\ wait_result' = FALSE
            /\ UNCHANGED <<wait_clock, wait_anti_bot, wait_last, wait_delivered>>
       ELSE \E saw \in {"anti_bot", "content", "thin", "error"},
               just_a_moment \in BOOLEAN, clickable \in BOOLEAN,
               intr \in {"none", "in_click", "elsewhere"} :
              LET n == wait_anti_bot + 1
                  acts == saw = "anti_bot" /\ n > 5
                  wait_time == IF just_a_moment THEN 8
                               ELSE IF n > 3 THEN 5 ELSE 3
                  slept == CASE saw = "anti_bot" ->
                                   (IF acts THEN 3 ELSE 0)
                                   + (IF acts /\ clickable THEN 3 ELSE 0)
                                   + wait_time
                             [] saw = "content" -> 0
                             [] saw = "thin" -> 2
                             [] OTHER -> 3
              IN  /\ just_a_moment => saw = "anti_bot"
                  /\ clickable => acts
                  /\ intr # "none" => ~wait_delivered
                  /\ intr = "in_click" => acts /\ clickable
                  /\ wait_delivered' = (wait_delivered \/ intr # "none")
                  /\ wait_last' = saw
                  /\ wait_anti_bot' = IF saw = "anti_bot" THEN n
                                      ELSE IF saw = "error" THEN wait_anti_bot
                                      ELSE 0
                  /\ IF intr = "elsewhere"
                     THEN /\ wait_pc' = "interrupted"
                          /\ UNCHANGED <<wait_clock, wait_result>>
                     ELSE /\ wait_clock' = wait_clock + slept
                          /\ wait_pc' = IF saw = "content" THEN "returned"
                                        ELSE "polling"
                          /\ wait_result' = (saw = "content")
    /\ UNCHANGED wait_fetches
    /\ UNCHANGED notWait

\* The crawl goes on after wait_for_page_load has returned, with True or
\* with False: the orchestrator's loop over the journals reaches the next
\* driver.get, which is followed by the next wait.
NextFetch ==
    /\ wait_pc = "returned"
    /\ wait_fetches < MaxFetches
    /\ wait_fetches' = wait_fetches + 1
    /\ wait_pc' = "polling"
    /\ wait_clock' = 0
    /\ wait_anti_bot' = 0
    /\ wait_last' = "none"
    /\ wait_result' = FALSE
    /\ UNCHANGED wait_delivered
    /\ UNCHANGED notWait

(***************************************************************************)
(* PLOSParser._scrape_all_pages_with_selenium and _scrape_with_requests:   *)
(* the loop `while True` over the pages of a search listing.  A page of    *)
(* the listing holds at most PageSize results.  The server is free in its  *)
(* answer to every request.  The two counters are followed up to           *)
(* MaxPlosPages, which stands for every larger value.                      *)
(***************************************************************************)
PageSize == 60
MaxPlosPages == 6

\* No listing paged, in the specifications of the other subsystems.
PlosIdle ==
    /\ plos_mode = "requests"
    /\ plos_total = 0
    /\ plos_page = 1
    /\ plos_requested = 0
    /\ plos_last = "start"
    /\ plos_pc = "done"

\* One iteration of the loop: page plos_page is requested, and the loop
\* breaks or moves to the next page.  The page can hold: nothing, the
\* request having failed or raised; no result; fewer than PageSize results;
\* PageSize results none of which is of the journal; PageSize results some
\* of which are.  Only _scrape_with_requests compares page with total_pages,
\* and only on a page that held results of the journal.
PlosPage ==
    /\ plos_pc = "paging"
    /\ \E answer \in {"failed", "empty", "partial", "full_filtered", "full"} :
          LET original_doi_count ==
                  CASE answer \in {"full", "full_filtered"} -> PageSize
                    [] answer = "partial" -> 1
                    [] OTHER -> 0
              beyond == plos_mode = "requests" /\ answer = "full"
                        /\ plos_total # 0 /\ plos_page >= plos_total
              more == original_doi_count >= PageSize /\ ~beyond
          IN  /\ plos_last' = answer
              /\ plos_requested' = IF plos_requested < MaxPlosPages
                                   THEN plos_requested + 1 ELSE plos_requested
              /\ plos_pc' = IF more THEN "paging" ELSE "done"
              /\ plos_page' = IF more /\ plos_page < MaxPlosPages
                              THEN plos_page + 1 ELSE plos_page
    /\ UNCHANGED <<plos_mode, plos_total>>
    /\ UNCHANGED notPlos

(***************************************************************************)
(* Specifications.                                                         *)
(***************************************************************************)
ConsInit == ConsStart /\ DbIdle /\ NatIdle /\ RegIdle /\ CellIdle
    /\ WinIdle
    /\ RunIdle
    /\ FbIdle
    /\ IntakeIdle
    /\ HandIdle
    /\ FetchIdle
    /\ DaemonIdle
    /\ PoolIdle
    /\ WaitIdle
    /\ PlosIdle
SpecConsensus == ConsInit /\ [][PassA \/ PassB \/ Arbitrate]_vars

DbInit == DbStart /\ ConsIdle /\ NatIdle /\ RegIdle /\ CellIdle
    /\ WinIdle
    /\ RunIdle
    /\ FbIdle
    /\ IntakeIdle
    /\ HandIdle
    /\ FetchIdle
    /\ DaemonIdle
    /\ PoolIdle
    /\ WaitIdle
    /\ PlosIdle
SpecSave == DbInit /\ [][SavePaper]_vars

NatInit == NatStart /\ ConsIdle /\ DbIdle /\ RegIdle /\ CellIdle
    /\ WinIdle
    /\ RunIdle
    /\ FbIdle
    /\ IntakeIdle
    /\ HandIdle
    /\ FetchIdle
    /\ DaemonIdle
    /\ PoolIdle
    /\ WaitIdle
    /\ PlosIdle
NatNext == NatFetchPage \/ NatFetchFails \/ NatEndStream
SpecNature == NatInit /\ [][NatNext]_vars

PagingInit == PagingStart /\ ConsIdle /\ DbIdle /\ RegIdle /\ CellIdle
    /\ WinIdle
    /\ RunIdle
    /\ FbIdle
    /\ IntakeIdle
    /\ HandIdle
    /\ FetchIdle
    /\ DaemonIdle
    /\ PoolIdle
    /\ WaitIdle
    /\ PlosIdle
SpecPaging == PagingInit /\ [][NatNext]_vars

RegInit == RegStart /\ ConsIdle /\ DbIdle /\ NatIdle /\ CellIdle
    /\ WinIdle
    /\ RunIdle
    /\ FbIdle
    /\ IntakeIdle
    /\ HandIdle
    /\ FetchIdle
    /\ DaemonIdle
    /\ PoolIdle
    /\ WaitIdle
    /\ PlosIdle
SpecRegistry == RegInit /\ [][AddFailedJournal \/ ClearFailedJournals \/ RetryBegin
                              \/ RetryOne]_vars

CellInit == CellStart /\ RegIdle /\ ConsIdle /\ DbIdle /\ NatIdle
    /\ WinIdle
    /\ RunIdle
    /\ FbIdle
    /\ IntakeIdle
    /\ HandIdle
    /\ FetchIdle
    /\ DaemonIdle
    /\ PoolIdle
    /\ WaitIdle
    /\ PlosIdle
SpecCell == CellInit /\ [][CellScrapeJournal]_vars

WinInit == WinStart /\ ConsIdle /\ DbIdle /\ NatIdle /\ RegIdle
    /\ CellIdle
    /\ RunIdle
    /\ FbIdle
    /\ IntakeIdle
    /\ HandIdle
    /\ FetchIdle
    /\ DaemonIdle
    /\ PoolIdle
    /\ WaitIdle
    /\ PlosIdle

SpecWindow == WinInit /\ [][RunSubjournal \/ DayPasses]_vars

RunInit == RunStart /\ ConsIdle /\ DbIdle /\ NatIdle /\ RegIdle
    /\ CellIdle
    /\ WinIdle
    /\ FbIdle
    /\ IntakeIdle
    /\ HandIdle
    /\ FetchIdle
    /\ DaemonIdle
    /\ PoolIdle
    /\ WaitIdle
    /\ PlosIdle

SpecRun == RunInit /\ [][RunJournal \/ RunSub \/ PrintSummary]_vars


FbInit == FbStart /\ ConsIdle /\ DbIdle /\ NatIdle /\ RegIdle
    /\ CellIdle
    /\ WinIdle
    /\ RunIdle
    /\ IntakeIdle
    /\ HandIdle
    /\ FetchIdle
    /\ DaemonIdle
    /\ PoolIdle
    /\ WaitIdle
    /\ PlosIdle

SpecFallback == FbInit /\ [][FbListIssues \/ FbFetchIssue]_vars


IntakeInit == IntakeStart /\ ConsIdle /\ DbIdle /\ NatIdle /\ RegIdle
    /\ CellIdle
    /\ WinIdle
    /\ RunIdle
    /\ FbIdle
    /\ HandIdle
    /\ FetchIdle
    /\ DaemonIdle
    /\ PoolIdle
    /\ WaitIdle
    /\ PlosIdle

SpecIntake == IntakeInit /\ [][IntakeSubjournal]_vars


HandInit == HandStart /\ ConsIdle /\ DbIdle /\ NatIdle /\ RegIdle
    /\ CellIdle
    /\ WinIdle
    /\ RunIdle
    /\ FbIdle
    /\ IntakeIdle
    /\ FetchIdle
    /\ DaemonIdle
    /\ PoolIdle
    /\ WaitIdle
    /\ PlosIdle

SpecHandoff == HandInit /\ [][HandOff]_vars


FetchInit == FetchStart /\ ConsIdle /\ DbIdle /\ NatIdle /\ RegIdle
    /\ CellIdle
    /\ WinIdle
    /\ RunIdle
    /\ FbIdle
    /\ IntakeIdle
    /\ HandIdle
    /\ DaemonIdle
    /\ PoolIdle
    /\ WaitIdle
    /\ PlosIdle

SpecFetch == FetchInit /\ [][FetchAttempt \/ FetchBrowser]_vars

DaemonInit == DaemonStart /\ ConsIdle /\ DbIdle /\ NatIdle /\ RegIdle
    /\ CellIdle
    /\ WinIdle
    /\ RunIdle
    /\ FbIdle
    /\ IntakeIdle
    /\ HandIdle
    /\ FetchIdle
    /\ PoolIdle
    /\ WaitIdle
    /\ PlosIdle

SpecDaemon == DaemonInit /\ [][InitializeJournal \/ DaemonExits]_vars

PoolInit == PoolStart /\ ConsIdle /\ DbIdle /\ NatIdle /\ RegIdle
    /\ CellIdle
    /\ WinIdle
    /\ RunIdle
    /\ FbIdle
    /\ IntakeIdle
    /\ HandIdle
    /\ FetchIdle
    /\ DaemonIdle
    /\ WaitIdle
    /\ PlosIdle

SpecPool == PoolInit /\ [][StartBatch \/ FinishBatch \/ EndPass]_vars

\* wait_for_page_load has just been called, after the first driver.get.
WaitInit ==
    /\ wait_pc = "polling"
    /\ wait_clock = 0
    /\ wait_anti_bot = 0
    /\ wait_last = "none"
    /\ wait_result = FALSE
    /\ wait_delivered = FALSE
    /\ wait_fetches = 1
    /\ ConsIdle /\ DbIdle /\ NatIdle /\ RegIdle
    /\ CellIdle
    /\ WinIdle
    /\ RunIdle
    /\ FbIdle
    /\ IntakeIdle
    /\ HandIdle
    /\ FetchIdle
    /\ DaemonIdle
    /\ PoolIdle
    /\ PlosIdle

SpecWait == WaitInit /\ [][WaitPoll \/ NextFetch]_vars

\* The loop is entered with page = 1, after the detection of total_pages.
PlosInit ==
    /\ plos_mode \in {"selenium", "requests"}
    /\ plos_total \in 0..(MaxPlosPages - 2)
    /\ plos_page = 1
    /\ plos_requested = 0
    /\ plos_last = "start"
    /\ plos_pc = "paging"
    /\ ConsIdle /\ DbIdle /\ NatIdle /\ RegIdle
    /\ CellIdle
    /\ WinIdle
    /\ RunIdle
    /\ FbIdle
    /\ IntakeIdle
    /\ HandIdle
    /\ FetchIdle
    /\ DaemonIdle
    /\ PoolIdle
    /\ WaitIdle

\* The loop sleeps between two pages and requests the next one by itself.
SpecPlos == PlosInit /\ [][PlosPage]_vars /\ WF_vars(PlosPage)

(***************************************************************************)
(* Claims.                                                                 *)
(***************************************************************************)
\* Both votes of item i are present.
BothPresent(i) == result1[i] # "absent" /\ result2[i] # "absent"

Arbitrated(i) == i \in ItemIds /\ (i < idx \/ cpc = "done")

\* C1: every input item ends in exactly one of the two outputs, and an item
\* with a missing vote is in the non-relevant output with the failed reason.
C1_NoItemDropped ==
    cpc = "done" =>
        /\ Len(ai_papers) + Len(non_ai_papers) = card_infos
        /\ \A i \in ItemIds :
             ~BothPresent(i) =>
                 [id |-> i, reason |-> FailedReason] \in Range(non_ai_papers)

\* C2: an item voted relevant by both passes is relevant without any
\* adjudication call, and the number of adjudication calls of a whole
\* classification is the number of items with two present, differing votes.
C2_AdjudicationCount ==
    /\ \A i \in ItemIds :
         (Arbitrated(i) /\ result1[i] = "Related" /\ result2[i] = "Related") =>
             /\ i \in Ids(ai_papers)
             /\ review_calls[i] = 0
    /\ cpc = "done" =>
         SumOver(review_calls, ItemIds) =
             Cardinality({i \in ItemIds :
                             BothPresent(i) /\ result1[i] # result2[i]})

C2_Witness ==
    /\ cpc = "done"
    /\ \E i, j \in ItemIds :
         /\ result1[i] = "Related" /\ result2[i] = "Related"
         /\ BothPresent(j) /\ result1[j] # result2[j]
         /\ review_calls[j] = 1

\* C3: with both votes present, the verdict is the common verdict with pass
\* A's explanation when the passes agree, and the verdict of the adjudication
\* call when they disagree.
C3_Verdict ==
    \A i \in ItemIds :
        (Arbitrated(i) /\ BothPresent(i)) =>
            IF result1[i] = result2[i]
            THEN IF result1[i] = "Related"
                 THEN /\ [id |-> i, reason |-> "explA"] \in Range(ai_papers)
                      /\ i \notin Ids(non_ai_papers)
                 ELSE /\ [id |-> i, reason |-> "explA"] \in Range(non_ai_papers)
                      /\ i \notin Ids(ai_papers)
            ELSE /\ review[i] \in ReviewOutcome
                 /\ (review[i] = "Related") <=> (i \in Ids(ai_papers))
                 /\ (review[i] # "Related") <=> (i \in Ids(non_ai_papers))

C3_Witness ==
    /\ cpc = "done"
    /\ \E i, j \in ItemIds :
         /\ result1[i] = "NotRelated" /\ result2[i] = "NotRelated"
         /\ result1[j] = "NotRelated" /\ result2[j] = "Related"
         /\ review[j] = "Related"
         /\ j \in Ids(ai_papers)

\* identity_key of an item: the DOI, or the URL when the DOI is empty.
IdentityKey(p) == IF p.doi # "" THEN p.doi ELSE p.url

CallsOn(k) == {i \in DOMAIN save_log : IdentityKey(save_log[i]) = k}

\* The stored records of identity key k (an empty key is stored as NULL).
RowsOf(k) ==
    {i \in DOMAIN papers_table :
        papers_table[i].doi = (IF k = "" THEN NULL ELSE k)}

LoggedKeys == {IdentityKey(save_log[i]) : i \in DOMAIN save_log}

\* C4 as stated: for every identity key saved at least once there is exactly
\* one stored record, the first call returned true and every later call
\* returned false.
C4_Original ==
    \A k \in LoggedKeys :
        /\ Cardinality(RowsOf(k)) = 1
        /\ \A i \in CallsOn(k) :
             save_log[i].ret = (\A j \in CallsOn(k) : i <= j)

\* C4 (amended): for a non-empty identity key at most one record is stored,
\* and exactly one once a call has reached the database without error; the
\* first such call returns true and every other call returns false.
C4_IdempotentSave ==
    \A k \in LoggedKeys \ {""} :
        LET ok == {i \in CallsOn(k) : save_log[i].db_ok}
        IN  /\ Cardinality(RowsOf(k)) = (IF ok = {} THEN 0 ELSE 1)
            /\ \A i \in CallsOn(k) :
                 save_log[i].ret = (i \in ok /\ \A j \in ok : i <= j)

C4_Witness ==
    \E k \in LoggedKeys \ {""} :
        /\ Cardinality(CallsOn(k)) >= 3
        /\ \E i \in CallsOn(k) : save_log[i].doi = ""
        /\ \A i \in CallsOn(k) : save_log[i].db_ok
        /\ Cardinality(RowsOf(k)) = 1
        /\ Cardinality({i \in CallsOn(k) : save_log[i].ret}) = 1
\* The page loop of article type t has ended.
LoopEnded(t) ==
    \/ nat_pc # "paging"
    \/ article_type > t
    \/ article_type = t /\ page_url = 0

DatesOf(s) == [i \in DOMAIN s |-> s[i].date]

PageHas(p, d) == \E i \in DOMAIN p : p[i].date = d

LastPage(t) == pages[t][Len(pages[t])]

\* C5: the list a crawl returns holds no two items with the same identity key.
C5_NoDuplicateKey ==
    nat_pc = "returned" =>
        \A i, j \in DOMAIN nat_result :
            i # j => nat_result[i].id # nat_result[j].id

InWindow(d) == start_date <= d /\ d <= end_date

Fetched(t) == UNION {Range(pages[t][i]) : i \in DOMAIN pages[t]}

PassEnds == retry_pc # "done" /\ retry_pc' = "done"

\* C8: when a retry pass ends, a source that was recorded with reason
\* Forbidden and whose site was reachable with an item in the window is
\* absent from the registry.
C8_RetrySuccessRemoves ==
    [][PassEnds =>
        \A i \in DOMAIN before' :
            (before'[i].reason = "Forbidden"
                /\ retry_site'[before'[i].journal_name] = "ok_items") =>
                before'[i].journal_name \notin Names(failed_file')]_vars

C10_FirstPageFailureEscalates ==
    (cell_pc = "done" /\ GetPageWithRetry(req, browser, selenium) = "none") =>
        /\ cell_raised
        /\ cell_journal \in Names(failed_file)
\* A run of the sub-journal has ended without a failure of the sub-journal.
RunSucceeded == run_window # <<>> /\ ~run_failed

C13_WindowOrdered ==
    run_window # <<>> => run_window[1] <= run_window[2]

\* C14: when a run has ended, every sub-journal of every journal whose
\* components were initialised has been scraped exactly once, whatever the
\* sub-journals before it did.
C14_EverySubjournalAttemptedOnce ==
    run_pc = "done" =>
        \A j \in Sources :
            initialized[j] =>
                \A s \in 1 .. journal_list[j] : attempts[j][s] = 1

\* C15: when a run has ended, the report has an entry for every configured
\* journal, also for one whose list of sub-journals is empty.
C15_EverySourceReported ==
    run_pc = "done" => \A j \in Sources : run_results[j] # "absent"

\* The item's classification met a failed call: a vote is missing because a
\* batch call of pass A or B returned no result for it, or its adjudication
\* call failed.
CallFailed(i) == ~BothPresent(i) \/ review[i] = "error"

\* C16: when the classification of a list has ended, every item that met a
\* failed classification call is in the non-relevant output.
C16_FailedCallsEndNonRelevant ==
    cpc = "done" =>
        \A i \in ItemIds : CallFailed(i) => i \in Ids(non_ai_papers)

\* No issue of the listing and no article seen lies in the window.
NothingInWindow == fb_relaxed /\ fb_seen["in_range"] = 0

\* Twice the distance of date d from the midpoint of window w.
MidpointDistance2(d, w) == Abs(2 * d - (w[1] + w[2]))

\* C17: when nothing of a non-empty listing lies in the window, the crawl
\* returns at most 2 items, and no dated issue left out by the fallback is
\* strictly closer to the midpoint of the window than one it chose.
C17_TwoNearestItems ==
    (fb_pc = "done" /\ NothingInWindow /\ fb_issues # <<>>) =>
        /\ fb_returned <= 2
        /\ \A i \in Range(fb_selected) :
             \A j \in DOMAIN fb_issues \ Range(fb_selected) :
                 fb_issues[j] # NoDate =>
                     ~(MidpointDistance2(fb_issues[j], fb_window)
                         < MidpointDistance2(fb_issues[i], fb_window))

\* C18: when the strict window matches nothing but the listing has a dated
\* issue and the issues fetched served at least one article, the crawl
\* returns a non-empty result.
C18_FallbackNotStarved ==
    (/\ fb_pc = "done"
     /\ NothingInWindow
     /\ \E j \in DOMAIN fb_issues : fb_issues[j] # NoDate
     /\ SumOver(fb_seen, ArtKinds) > 0)
        => fb_returned > 0

\* C19: no item whose DOI is in storage when its sub-journal is processed is
\* among the contents handed to the classification passes.
C19_StoredNeverClassified ==
    [][IntakeSubjournal => card_dois' \cap in_stored = {}]_vars

\* C20: a DOI of a sub-journal's listing that scrape_journal did not return
\* for it was not in the listing of an earlier sub-journal of the run.
C20_SeenSetPerSource ==
    \A k \in 1 .. MaxSubs :
        k < in_k =>
            \A d \in in_listing[k] \ in_returned[k] :
                \A e \in 1 .. k - 1 : d \notin in_listing[e]

\* C21: after a hand-over, every item whose save reached the database has a
\* row under its identity key (the DOI, else the URL), and every
\* non-relevant item has an entry of the archive under its identity key.
C21_KeyedByDoiElseUrl ==
    hand_pc = "done" =>
        /\ \A i \in DOMAIN hand_saves :
             hand_saves[i].ok =>
                 \E r \in DOMAIN hand_table :
                     hand_table[r].doi = IdentityKey(hand_saves[i])
        /\ \A i \in DOMAIN hand_non_ai :
             \E x \in DOMAIN hand_archive :
                 IdentityKey([doi |-> hand_archive[x].doi,
                              url |-> hand_archive[x].link])
                     = IdentityKey(hand_non_ai[i])

\* C22: save_paper is invoked on the relevant items of a sub-journal in
\* ascending order of their dates.
C22_SavesAscending ==
    \A i, j \in DOMAIN hand_saves :
        (i < j /\ hand_saves[i].date # NoDate /\ hand_saves[j].date # NoDate)
            => hand_saves[i].date <= hand_saves[j].date

\* C23: when the iteration of a sub-journal has ended, save_paper has been
\* invoked on every relevant item.
C23_EveryRelevantSaved ==
    hand_pc # "start" => Len(hand_saves) = Len(hand_ai)

\* C24: recording a failure leaves the retry_count of every record already
\* in the registry as it was (only a retry attempt changes it).
C24_RecordingKeepsRetryCount ==
    [][AddFailedJournal =>
        \A j \in Names(failed_file) :
            RecordOf(failed_file', j).retry_count
                = RecordOf(failed_file, j).retry_count]_vars

\* C25: a fetch reports failure only after all N plain attempts were made
\* and, where a browser is available to the source, the browser was asked
\* for the page too; in particular never after a single failed request.
C25_FailureOnlyWhenExhausted ==
    (fetch_pc = "done" /\ fetch_result = "none") =>
        /\ fetch_attempt >= MaxRetries
        /\ fetch_browser => fetch_browser_tried

\* C26: one fetch sends at most N plain HTTP requests to the server, the
\* requests re-sent by the transport included.
C26_AtMostNRequests == fetch_sent <= MaxAttemptsOf(fetch_kind)

\* C27: with a browser available, a plain response with a body below the
\* threshold is never the successful result of a fetch.
C27_ShortBodyNotSuccess == fetch_browser => fetch_result # "plain_short"

\* C28: a fetch whose every answer was a 403 or a 429 ends with a Forbidden
\* result, different from the result of a fetch that failed otherwise.
C28_ForbiddenDistinguished ==
    (fetch_pc = "done" /\ fetch_forbidden) => fetch_result = "forbidden"

\* C29: a page request that fails with a transient error is made again:
\* after the failed request the same page is still the page to request, and
\* the listing of the article type has not ended.
C29_TransientErrorRetried ==
    [][NatFetchFails => (page_url' = page_url /\ page_url' # 0)]_vars

\* C30: the browser sessions that are open are those of the parsers in use,
\* one per journal at most, however many runs were made, and none is open
\* once the process has exited.
C30_SessionsShutDown ==
    /\ dm_open =
         Cardinality({j \in DOMAIN dm_parsers : dm_parsers[j] = "driver"})
    /\ dm_pc = "exited" => dm_open = 0

C37_FirstFailureTimeKept ==
    [][\A j \in Names(failed_file) \cap Names(failed_file') :
          RecordOf(failed_file', j).failed_time =
              RecordOf(failed_file, j).failed_time]_vars

\* C38: in the report of a run of main_backward, succeeded sub-sources plus
\* failed sub-sources equal the sub-sources processed, for every journal.
C38_CountersPartition ==
    run_entry = "backward" =>
        \A j \in Sources :
            sub_success[j] + sub_failed[j] =
                SumOver(attempts[j], DOMAIN attempts[j])

\* identity_key of entry x of the archive.
ArchiveKey(x) ==
    IdentityKey([doi |-> hand_archive[x].doi, url |-> hand_archive[x].link])

\* C35: once the iteration of a sub-journal has ended, the archive holds
\* each identity key at most once and holds the key of every item of the
\* iteration that got a non-relevant verdict.
C35_ArchiveCompleteAndUnique ==
    hand_pc # "start" =>
        /\ \A x, y \in DOMAIN hand_archive :
             ArchiveKey(x) = ArchiveKey(y) => x = y
        /\ \A i \in DOMAIN hand_non_ai :
             \E x \in DOMAIN hand_archive :
                 ArchiveKey(x) = IdentityKey(hand_non_ai[i])

\* C32: every item gets its two batch votes once in a run.  The entry
\* point sends every item scrape_journal returns through pass A and pass B,
\* so no returned item has been through the two passes of the parser.
C32_ClassifiedOncePerRun ==
    nat_pc = "returned" =>
        \A i \in DOMAIN nat_result : nat_result[i].id \notin nat_voted

\* C33: at most MaxWorkers batch calls are in flight at any moment, and a
\* pass that has ended has made exactly one call for each of its batches.
C33_PoolWidthAndOneCallPerBatch ==
    /\ pool_running <= MaxWorkers
    /\ \A p \in {"A", "B"} :
         /\ \A b \in DOMAIN pool_calls[p] : pool_calls[p][b] <= 1
         /\ (p = "A" /\ pool_pass # "A") \/ pool_pass = "arbitrate" =>
                \A b \in DOMAIN pool_calls[p] : pool_calls[p][b] = 1

\* More batches than threads, the pool full and a batch still waiting.
C33_Witness ==
    /\ pool_running = MaxWorkers
    /\ pool_next <= Len(pool_parts[pool_pass])
    /\ pool_done[pool_pass] > 0

\* C34: pass B runs only when every batch of pass A has ended, over the
\* same batches, none of more than BatchSize items and together covering
\* the items; the verdicts are drawn only when both passes have ended.
C34_PassOrder ==
    /\ pool_pass # "A" => pool_done["A"] = Len(pool_parts["A"])
    /\ pool_pass = "A" => pool_done["B"] = 0 /\ pool_calls["B"] = <<>>
    /\ pool_pass # "A" => pool_parts["B"] = pool_parts["A"]
    /\ \A b \in DOMAIN pool_parts["A"] :
         /\ pool_parts["A"][b][2] - pool_parts["A"][b][1] + 1 \in 1 .. BatchSize
         /\ pool_parts["A"][b][1] =
                (IF b = 1 THEN 1 ELSE pool_parts["A"][b - 1][2] + 1)
    /\ pool_parts["A"] # <<>> =>
           pool_parts["A"][Len(pool_parts["A"])][2] = pool_items
    /\ pool_pass = "arbitrate" =>
           /\ pool_done["B"] = Len(pool_parts["B"])
           /\ pool_running = 0

\* Pass B under way with several batches, one of them in flight.
C34_Witness ==
    /\ pool_pass = "B"
    /\ Len(pool_parts["B"]) >= 2
    /\ pool_running > 0
    /\ pool_done["B"] > 0

\* C31: once an interruption has been delivered to the process, no further
\* page fetch is issued.
C31_NoFetchAfterInterruption ==
    [][wait_delivered => wait_fetches' = wait_fetches]_vars

\* C40: wait_for_page_load returns within max_wait seconds of its call, and
\* returns True only when its last poll saw a page without anti-automation
\* marker.
C40_WaitBoundedAndHonest ==
    wait_pc = "returned" =>
        /\ wait_clock <= DefaultMaxWait
        /\ wait_result => wait_last \notin {"anti_bot", "none"}

\* C39: pagination over a PLOS search listing terminates whatever the server
\* answers, and requests no more pages than the detected total page count
\* when that count is known.
C39_PagingTerminates ==
    /\ [](plos_total # 0 => plos_requested <= plos_total)
    /\ <>(plos_pc = "done")
====
